---- MODULE Spec2Model ----
(***************************************************************************)
(* quick-response-force: the retry/validation loop of callInterceptionApi, *)
(* the prompt assembly and the transport dispatch of makeApiCall           *)
(* (core/api.js), with the host's connection-profile service.              *)
(*                                                                         *)
(* Text is a sequence of one-character strings.  One action is one run of  *)
(* JavaScript between two suspension points (await): the code in between   *)
(* is atomic under the host's single-threaded event loop.                  *)
(***************************************************************************)
EXTENDS Integers, Sequences, FiniteSets, TLC

(***************************************************************************)
(* Bounds of the model.                                                    *)
(***************************************************************************)
\* largest configured apiSettings.maxRetries (0 stands for "unset")
MaxRetriesCfg == 3
\* longest content a transport returns
MaxContentLen == 2

(***************************************************************************)
(* Text helpers (String.prototype.trim / includes / split).                *)
(***************************************************************************)
RECURSIVE TrimStart(_)
TrimStart(s) ==
    IF s = <<>> THEN <<>>
    ELSE IF Head(s) = " " THEN TrimStart(Tail(s)) ELSE s

RECURSIVE TrimEnd(_)
TrimEnd(s) ==
    IF s = <<>> THEN <<>>
    ELSE IF s[Len(s)] = " " THEN TrimEnd(SubSeq(s, 1, Len(s) - 1)) ELSE s

Trim(s) == TrimEnd(TrimStart(s))

\* a substring test that ignores the letter case
IncludesIgnoringCase(s, k) ==
    LET Fold(t) == [i \in 1..Len(t) |-> IF t[i] = "a" THEN "A" ELSE t[i]]
    IN \E i \in 0..(Len(s) - Len(k)) : Fold(SubSeq(s, i + 1, i + Len(k))) = Fold(k)

\* content.includes(keyword): exact, case-sensitive substring test
Includes(s, k) ==
    \E i \in 0..(Len(s) - Len(k)) : SubSeq(s, i + 1, i + Len(k)) = k

\* str.split(','): the pieces between commas, empty pieces kept
RECURSIVE SplitComma(_, _)
SplitComma(s, cur) ==
    IF s = <<>> THEN <<cur>>
    ELSE IF Head(s) = "," THEN <<cur>> \o SplitComma(Tail(s), <<>>)
    ELSE SplitComma(Tail(s), Append(cur, Head(s)))

RECURSIVE TrimAndDropEmpty(_)
TrimAndDropEmpty(parts) ==
    IF parts = <<>> THEN <<>>
    ELSE IF Len(Trim(Head(parts))) > 0
         THEN <<Trim(Head(parts))>> \o TrimAndDropEmpty(Tail(parts))
         ELSE TrimAndDropEmpty(Tail(parts))

\* requiredKeywords: split(',').map(trim).filter(non-empty), [] when unset
ParseRequiredKeywords(str) ==
    IF str = <<>> THEN <<>> ELSE TrimAndDropEmpty(SplitComma(str, <<>>))

\* a validation that accepts the content as soon as one keyword occurs
validateKeywordsAny(content, requiredKeywords) ==
    IF Len(requiredKeywords) = 0 THEN TRUE
    ELSE \E i \in 1..Len(requiredKeywords) : Includes(content, requiredKeywords[i])

\* validateKeywords: every required keyword is a substring of the content
validateKeywords(content, requiredKeywords) ==
    IF Len(requiredKeywords) = 0 THEN TRUE
    ELSE \A i \in 1..Len(requiredKeywords) : Includes(content, requiredKeywords[i])

\* maxRetries = apiSettings.maxRetries || 3
DefaultMaxRetries == 3
EffectiveMaxRetries(cfg) == IF cfg = 0 THEN DefaultMaxRetries ELSE cfg

(***************************************************************************)
(* State.                                                                  *)
(***************************************************************************)
VARIABLES
    apiSettings,      \* the settings snapshot handed to callInterceptionApi
    globalSettings,   \* promptMode and jailbreakPrompts
    callArgs,         \* userMessage, contextMessages, worldbookContent, tableDataContent
    hostContext,      \* getContext(): persona/character text, connection profiles
    activeProfile,    \* the host's active connection profile ("/profile")
    pc,               \* where callInterceptionApi is suspended
    attempt,          \* the loop counter of the retry loop
    messages,         \* the message array of the running makeApiCall
    originalProfile,  \* makeApiCall local (tavern branch)
    responsePromise,  \* makeApiCall local (tavern branch)
    ret,              \* what callInterceptionApi settled with
    toasts,           \* toastr notifications, in order
    attemptsMade,     \* makeApiCall invocations
    backoffs,         \* 1-second waits completed
    requests,         \* transport requests issued (fetch, $.ajax, sendRequest)
    outcomes,         \* the outcome of each finished attempt
    steps,            \* what the running tavern dispatch did, in order
    profileSwitches,  \* "set active profile" calls issued
    profileBefore,    \* the active profile when the running dispatch began
    dispatches,       \* overlapping tavern dispatches: kind, position, locals
    isGoogleApi,      \* fetchWithStreamAndTimeout: the provider family
    body,             \* the response body the server sends, as characters
    received,         \* how many characters of body the reader has delivered
    now,              \* Date.now(), in milliseconds since the call
    lastChunkTime,    \* fetchWithStreamAndTimeout local
    timeoutId,        \* fetchWithStreamAndTimeout local: the interval timer
    buffer,           \* fetchWithStreamAndTimeout local
    accumulatedContent, \* fetchWithStreamAndTimeout local
    reader,           \* the lock of response.body.getReader()
    cancelled,        \* reader.cancel() has been called
    streamPc,         \* where fetchWithStreamAndTimeout is suspended
    streamRet,        \* what fetchWithStreamAndTimeout settled with
    lastArrival,      \* when the last chunk (or the call) happened
    watchdogRanAt,    \* when checkTimeout ran last, -1 before its first run
    settledAt,        \* when fetchWithStreamAndTimeout settled, -1 before
    uncaught,         \* the errors thrown out of timer callbacks
    loreSettings,     \* the apiSettings fields getCombinedWorldbookContent reads
    loreContext,      \* context.chat (the 'mes' texts) and userMessage
    worldbook,        \* the entries the host keeps for the character's book
    userEnabledEntries, \* getCombinedWorldbookContent local
    triggeredEntries, \* getCombinedWorldbookContent local, in insertion order
    pendingGreenLights, \* getCombinedWorldbookContent local
    passes,           \* iterations of the activation loop begun
    addCount,         \* triggeredEntries.add calls, by entry uid
    lorePc,           \* where getCombinedWorldbookContent is
    loreRet,          \* what getCombinedWorldbookContent settled with
    loreErrors,       \* the errors thrown inside it: where they came from
    rendered,         \* the entries whose content was joined, in order
    combinedContent,  \* the joined and stripped block, before the limit
    template,         \* replacePlaceholders: the text it is called with
    resolved,         \* replacePlaceholders: what it returned
    raceSite,         \* withTimeout: the call site's timeoutMs and errorMessage
    raceNow,          \* milliseconds since withTimeout was called
    requestState,     \* the promise handed to withTimeout
    timerState,       \* the timer that withTimeout set
    raceRet,          \* what the promise of Promise.race settled with
    winner,           \* which of the two settled the race
    responseData,     \* normalizeApiResponse: the value it is called with
    normalized,       \* normalizeApiResponse: what it returned or threw
    candidate,        \* validateKeywords: the content it is called with
    validation,       \* validateKeywords: what it returned
    chat,             \* pruneQrfPlotHistory: the chat argument (context.chat)
    keepLatestCount,  \* pruneQrfPlotHistory: the keepLatestCount argument
    chatLog,          \* the chat as it was before each pruneQrfPlotHistory call
    removedCounts,    \* what each pruneQrfPlotHistory call returned
    inFlight,         \* the attempts whose transport request has not settled
    scanSettings,     \* bookNames and apiSettings.disabledWorldbookEntries
    hostGlobals,      \* the host globals the official scan rewrites
    globalsBefore,    \* the host globals before the first scan was called
    scans             \* tryGetWorldbookContentViaOfficialWI calls: locals, position

\* the state of one callInterceptionApi call and of the host it runs in
callVars == <<apiSettings, globalSettings, callArgs, hostContext, activeProfile, pc,
              attempt, messages, originalProfile, responsePromise, ret, toasts,
              attemptsMade, backoffs, requests, outcomes, steps, profileSwitches,
              profileBefore>>

\* the state that a single callInterceptionApi call leaves alone
\* the state of one fetchWithStreamAndTimeout call
streamVars == <<isGoogleApi, body, received, now, lastChunkTime, timeoutId, buffer,
                accumulatedContent, reader, cancelled, streamPc, streamRet,
                lastArrival, watchdogRanAt, settledAt, uncaught>>

\* no fetchWithStreamAndTimeout call is modelled
StreamUnused ==
    /\ isGoogleApi = FALSE
    /\ body = <<>>
    /\ received = 0
    /\ now = 0
    /\ lastChunkTime = 0
    /\ timeoutId = "unset"
    /\ buffer = <<>>
    /\ accumulatedContent = <<>>
    /\ reader = "none"
    /\ cancelled = FALSE
    /\ streamPc = "idle"
    /\ streamRet = [kind |-> "pending", value |-> <<>>]
    /\ lastArrival = 0
    /\ watchdogRanAt = -1
    /\ settledAt = -1
    /\ uncaught = {}

\* the state of one getCombinedWorldbookContent call
loreVars == <<loreSettings, loreContext, worldbook, userEnabledEntries,
              triggeredEntries, pendingGreenLights, passes, addCount, lorePc,
              loreRet, loreErrors, rendered, combinedContent>>

\* no getCombinedWorldbookContent call is modelled
LoreUnused ==
    /\ loreSettings = [worldbookEnabled |-> FALSE]
    /\ loreContext = [chat |-> <<>>, userMessage |-> <<>>]
    /\ worldbook = <<>>
    /\ userEnabledEntries = <<>>
    /\ triggeredEntries = <<>>
    /\ pendingGreenLights = <<>>
    /\ passes = 0
    /\ addCount = <<>>
    /\ lorePc = "idle"
    /\ loreRet = [kind |-> "pending", value |-> <<>>]
    /\ loreErrors = {}
    /\ rendered = <<>>
    /\ combinedContent = <<>>

\* the state of one replacePlaceholders call
resolveVars == <<template, resolved>>

\* no replacePlaceholders call is followed on its own
ResolveUnused ==
    /\ template = <<>>
    /\ resolved = [kind |-> "pending", value |-> <<>>]

\* the state of one withTimeout call
raceVars == <<raceSite, raceNow, requestState, timerState, raceRet, winner>>

\* no withTimeout call is followed on its own
RaceUnused ==
    /\ raceSite = [timeoutMs |-> 0, errorMessage |-> ""]
    /\ raceNow = 0
    /\ requestState = "none"
    /\ timerState = "none"
    /\ raceRet = [kind |-> "pending", value |-> <<>>]
    /\ winner = "none"

\* the state of one normalizeApiResponse call
normalizeVars == <<responseData, normalized>>

\* no normalizeApiResponse call is followed on its own
NormalizeUnused ==
    /\ responseData = [type |-> "undefined", str |-> <<>>, items |-> <<>>, props |-> <<>>]
    /\ normalized = [kind |-> "pending", value |-> <<>>]

\* the state of one validateKeywords call
keywordVars == <<candidate, validation>>

\* no validateKeywords call is followed on its own
KeywordUnused ==
    /\ candidate = <<>>
    /\ validation = "none"

\* the state of the pruneQrfPlotHistory calls on one chat
pruneVars == <<chat, keepLatestCount, chatLog, removedCounts>>

\* no pruneQrfPlotHistory call is followed
PruneUnused ==
    /\ chat = [isArray |-> TRUE, items |-> <<>>]
    /\ keepLatestCount = [type |-> "undefined", class |-> "", halves |-> 0, str |-> ""]
    /\ chatLog = <<>>
    /\ removedCounts = <<>>

\* the transport requests of one callInterceptionApi call
flightVars == <<inFlight>>

\* the requests of a call are not followed
FlightUnused == inFlight = {}

\* the tryGetWorldbookContentViaOfficialWI calls and the host they run in
scanVars == <<scanSettings, hostGlobals, globalsBefore, scans>>

\* no official scan is followed
ScanUnused ==
    /\ scanSettings = <<>>
    /\ hostGlobals = <<>>
    /\ globalsBefore = <<>>
    /\ scans = <<>>

helperVars == <<keywordVars, pruneVars, flightVars, scanVars>>

HelperUnused == KeywordUnused /\ PruneUnused /\ FlightUnused /\ ScanUnused

\* the calls that are followed on their own, one specification each
restVars == <<resolveVars, raceVars, normalizeVars, helperVars>>

RestUnused == ResolveUnused /\ RaceUnused /\ NormalizeUnused /\ HelperUnused

\* the state that a single callInterceptionApi call leaves alone
notCallVars == <<dispatches, streamVars, loreVars, restVars>>

vars == <<callVars, notCallVars>>

(***************************************************************************)
(* Placeholder resolution and prompt assembly (makeApiCall, first part).   *)
(* A token such as "<w>" stands for a literal run of text without          *)
(* whitespace, '$', '\' or ','.  " " stands for any whitespace character.  *)
(***************************************************************************)
\* the sentinel '$CORE_PROMPTS' ("*" stands for "ORE_PROMPTS")
CORE_PROMPTS == <<"$", "C", "*">>

\* String.prototype.replace with a string replacement: "$$" inserts "$" and
\* "$&" inserts the matched text
RECURSIVE ExpandReplacement(_, _)
ExpandReplacement(repl, matched) ==
    IF repl = <<>> THEN <<>>
    ELSE IF Len(repl) >= 2 /\ repl[1] = "$" /\ repl[2] = "$"
         THEN <<"$">> \o ExpandReplacement(SubSeq(repl, 3, Len(repl)), matched)
    ELSE IF Len(repl) >= 2 /\ repl[1] = "$" /\ repl[2] = "&"
         THEN matched \o ExpandReplacement(SubSeq(repl, 3, Len(repl)), matched)
    ELSE <<Head(repl)>> \o ExpandReplacement(Tail(repl), matched)

\* the regular expression /(?<!\\)\$c/ matches at position i of text
MatchesAt(text, i, c) ==
    /\ i < Len(text)
    /\ text[i] = "$"
    /\ text[i + 1] = c
    /\ (i = 1 \/ text[i - 1] # "\\")

\* text.replace(/(?<!\\)\$c/g, repl), scanning from position i
RECURSIVE ReplaceFrom(_, _, _, _)
ReplaceFrom(text, i, c, repl) ==
    IF i > Len(text) THEN <<>>
    ELSE IF MatchesAt(text, i, c)
         THEN ExpandReplacement(repl, <<"$", c>>) \o ReplaceFrom(text, i + 2, c, repl)
         ELSE <<text[i]>> \o ReplaceFrom(text, i + 1, c, repl)

ReplaceAll(text, c, repl) == ReplaceFrom(text, 1, c, repl)

\* getPromptPlaceholderReplacements: safeTrim of persona and character text
getPromptPlaceholderReplacements(context) ==
    [U |-> Trim(context.persona_description), C |-> Trim(context.description)]

\* fullHistory: contextMessages, then the user message when there is one
fullHistory ==
    IF callArgs.userMessage # <<>>
    THEN Append(callArgs.contextMessages,
                [role |-> "user", content |-> callArgs.userMessage])
    ELSE callArgs.contextMessages

\* fullHistory.map(msg => `${msg.role}："${msg.content}"`).join(' \n ')
RECURSIVE FormatHistory(_)
FormatHistory(h) ==
    IF h = <<>> THEN <<>>
    ELSE <<Head(h).role, ":", "q">> \o Head(h).content \o <<"q">>
         \o (IF Len(h) > 1 THEN <<" ", " ", " ">> \o FormatHistory(Tail(h)) ELSE <<>>)

formattedHistoryInjection ==
    IF FormatHistory(fullHistory) # <<>>
    THEN <<"<h>", " ", " ">> \o FormatHistory(fullHistory)
    ELSE <<>>

hasUnescapedHistoryPlaceholder(text) ==
    \E i \in 1..Len(text) : MatchesAt(text, i, "7")

usesHistoryPlaceholderMainOnly ==
    hasUnescapedHistoryPlaceholder(apiSettings.mainPrompt)

usesHistoryPlaceholder ==
    \/ hasUnescapedHistoryPlaceholder(apiSettings.mainPrompt)
    \/ hasUnescapedHistoryPlaceholder(apiSettings.systemPrompt)

worldbookReplacement ==
    IF apiSettings.worldbookEnabled /\ callArgs.worldbookContent # <<>>
    THEN <<" ", "<w>", " ">> \o callArgs.worldbookContent \o <<" ", "</w>", " ">>
    ELSE <<>>

tableDataReplacement ==
    IF callArgs.tableDataContent # <<>>
    THEN <<" ", "<t>", " ">> \o callArgs.tableDataContent \o <<" ", "</t>", " ">>
    ELSE <<>>

\* $1, $5, $7, $U, $C are replaced one after the other, each over the result
\* of the replacement before it
replacePlaceholders(text) ==
    LET uc == getPromptPlaceholderReplacements(hostContext)
        t1 == ReplaceAll(text, "1", worldbookReplacement)
        t5 == ReplaceAll(t1, "5", tableDataReplacement)
        t7 == ReplaceAll(t5, "7", formattedHistoryInjection)
        tU == ReplaceAll(t7, "U", uc.U)
    IN  ReplaceAll(tU, "C", uc.C)

\* where a message comes from: the field "from" of a message is kept for
\* the properties only, the program has no such field
NoEntry == [content |-> <<>>, role |-> "", enabled |-> TRUE]

FromCore(part) == [kind |-> part, entry |-> NoEntry]

FromJailbreak(jb) == [kind |-> "jailbreak", entry |-> jb]

corePromptMessagesHistoryLast ==
    LET main == replacePlaceholders(apiSettings.mainPrompt)
        sys  == replacePlaceholders(apiSettings.systemPrompt)
    IN  (IF apiSettings.mainPrompt # <<>> /\ Trim(main) # <<>>
         THEN <<[role |-> "system", content |-> main, from |-> FromCore("main")]>>
         ELSE <<>>)
        \o
        (IF apiSettings.systemPrompt # <<>> /\ Trim(sys) # <<>>
         THEN <<[role |-> "user", content |-> sys, from |-> FromCore("system")]>>
         ELSE <<>>)
        \o
        (IF formattedHistoryInjection # <<>> /\ ~usesHistoryPlaceholder
         THEN <<[role |-> "system", content |-> formattedHistoryInjection,
                 from |-> FromCore("history")]>>
         ELSE <<>>)

corePromptMessages ==
    LET main == replacePlaceholders(apiSettings.mainPrompt)
        sys  == replacePlaceholders(apiSettings.systemPrompt)
    IN  (IF apiSettings.mainPrompt # <<>> /\ Trim(main) # <<>>
         THEN <<[role |-> "system", content |-> main, from |-> FromCore("main")]>>
         ELSE <<>>)
        \o
        (IF formattedHistoryInjection # <<>> /\ ~usesHistoryPlaceholder
         THEN <<[role |-> "system", content |-> formattedHistoryInjection,
                 from |-> FromCore("history")]>>
         ELSE <<>>)
        \o
        (IF apiSettings.systemPrompt # <<>> /\ Trim(sys) # <<>>
         THEN <<[role |-> "user", content |-> sys, from |-> FromCore("system")]>>
         ELSE <<>>)

EnabledPromptsAll(ps) == ps

\* (globalSettings.jailbreakPrompts || []).filter(p => p.enabled !== false)
RECURSIVE EnabledPrompts(_)
EnabledPrompts(ps) ==
    IF ps = <<>> THEN <<>>
    ELSE IF Head(ps).enabled THEN <<Head(ps)>> \o EnabledPrompts(Tail(ps))
         ELSE EnabledPrompts(Tail(ps))

\* one jailbreak entry as a message: jbPrompt.role || 'system'; dropped when
\* its content is blank after substitution
JailbreakMessage(jb) ==
    LET content == replacePlaceholders(jb.content)
    IN  IF Trim(content) # <<>>
        THEN <<[role |-> IF jb.role = "" THEN "system" ELSE jb.role,
                content |-> content, from |-> FromJailbreak(jb)]>>
        ELSE <<>>

RECURSIVE JailbreakOnlyKeepsSentinel(_)
JailbreakOnlyKeepsSentinel(ps) ==
    IF ps = <<>> THEN <<>>
    ELSE JailbreakMessage(Head(ps)) \o JailbreakOnlyKeepsSentinel(Tail(ps))

\* promptMode 'jailbreak': the entries alone, the sentinel skipped
RECURSIVE JailbreakOnly(_)
JailbreakOnly(ps) ==
    IF ps = <<>> THEN <<>>
    ELSE IF Head(ps).content = CORE_PROMPTS THEN JailbreakOnly(Tail(ps))
         ELSE JailbreakMessage(Head(ps)) \o JailbreakOnly(Tail(ps))

\* promptMode 'classic': every sentinel entry is replaced by the core prompts
RECURSIVE ClassicMerge(_)
ClassicMerge(ps) ==
    IF ps = <<>> THEN <<>>
    ELSE IF Head(ps).content = CORE_PROMPTS
         THEN corePromptMessages \o ClassicMerge(Tail(ps))
         ELSE JailbreakMessage(Head(ps)) \o ClassicMerge(Tail(ps))

corePromptsInsertedNever(ps) == FALSE

corePromptsInserted(ps) == \E i \in 1..Len(ps) : ps[i].content = CORE_PROMPTS

AssembleMessages ==
    LET jailbreakPrompts == EnabledPrompts(globalSettings.jailbreakPrompts)
    IN  IF globalSettings.promptMode = "jailbreak"
        THEN JailbreakOnly(jailbreakPrompts)
        ELSE IF Len(jailbreakPrompts) > 0
             THEN ClassicMerge(jailbreakPrompts)
                  \o (IF corePromptsInserted(jailbreakPrompts)
                      THEN <<>> ELSE corePromptMessages)
             ELSE corePromptMessages


(***************************************************************************)
(* Values.                                                                 *)
(***************************************************************************)
\* what makeApiCall returns and what callInterceptionApi settles with
Null == [kind |-> "null", value |-> <<>>]
Str(s) == [kind |-> "string", value |-> s]
Pending == [kind |-> "pending", value |-> <<>>]
Rejected == [kind |-> "rejected", value |-> <<>>]

ContentChars == {"A", "B", "a"}

\* the texts a transport may deliver: non-empty texts over ContentChars and a
\* text of whitespace only
Contents ==
    UNION {[1..n -> ContentChars] : n \in 1..MaxContentLen} \cup {<<" ">>}

\* a transport result: null, or an object whose content is a string; content
\* <<>> stands for an empty or absent content ({error}, {data}, {content: ''})
NoResult == [kind |-> "null", content |-> <<>>]
Results ==
    {NoResult} \cup {[kind |-> "object", content |-> c] : c \in Contents \cup {<<>>}}

\* if (result && result.content) return result.content; return null;
ResultContent(result) ==
    IF result.kind = "object" /\ result.content # <<>>
    THEN Str(result.content) ELSE Null

\* what a failing call throws: an Error whose message names a timeout, or an
\* Error with another message
ErrorKinds == {"timeout", "other"}

\* error.message.includes('超时') selects the notification
ErrorToast(e) == IF e = "timeout" THEN "ApiTimeout" ELSE "ApiError"

config == <<apiSettings, globalSettings, callArgs, hostContext>>

maxRetries == EffectiveMaxRetries(apiSettings.maxRetries)

requiredKeywords == ParseRequiredKeywords(apiSettings.requiredKeywords)

(***************************************************************************)
(* The retry loop of callInterceptionApi: what follows                     *)
(* `const content = await makeApiCall()` in iteration att, up to the next  *)
(* suspension point.  ts are the notifications makeApiCall emitted in the  *)
(* same run.                                                               *)
(***************************************************************************)
\* a loop that waits and retries after its last iteration as well
AttemptsRemainOffByOne(att) == att <= maxRetries

\* if (attempt < maxRetries): wait and retry
AttemptsRemain(att) == att < maxRetries

\* a loop in which a keyword failure always waits and retries
LoopAfterAttemptKeywordsUnbudgeted(att, content, ts) ==
    /\ attempt' = att
    /\ IF content.kind = "null"
       THEN /\ outcomes' = Append(outcomes, "NoContent")
            /\ IF AttemptsRemain(att)
               THEN /\ pc' = "backoff"
                    /\ toasts' = toasts \o ts
                    /\ ret' = ret
               ELSE /\ pc' = "done"
                    /\ toasts' = toasts \o ts \o <<"RetriesExhausted">>
                    /\ ret' = Null
       ELSE IF ~validateKeywords(content.value, requiredKeywords)
       THEN /\ outcomes' = Append(outcomes, "KeywordFailed")
            /\ pc' = "backoff"
            /\ toasts' = toasts \o ts \o <<"KeywordRetry">>
            /\ ret' = ret
       ELSE /\ outcomes' = Append(outcomes, "Success")
            /\ pc' = "done"
            /\ toasts' = toasts \o ts \o (IF att > 1 THEN <<"Success">> ELSE <<>>)
            /\ ret' = content

LoopAfterAttempt(att, content, ts) ==
    /\ attempt' = att
    /\ IF content.kind = "null"
       THEN /\ outcomes' = Append(outcomes, "NoContent")
            /\ IF AttemptsRemain(att)
               THEN /\ pc' = "backoff"
                    /\ toasts' = toasts \o ts
                    /\ ret' = ret
               ELSE /\ pc' = "done"
                    /\ toasts' = toasts \o ts \o <<"RetriesExhausted">>
                    /\ ret' = Null
       ELSE IF ~validateKeywords(content.value, requiredKeywords)
       THEN /\ outcomes' = Append(outcomes, "KeywordFailed")
            /\ IF AttemptsRemain(att)
               THEN /\ pc' = "backoff"
                    /\ toasts' = toasts \o ts \o <<"KeywordRetry">>
                    /\ ret' = ret
               ELSE /\ pc' = "done"
                    /\ toasts' = toasts \o ts \o <<"KeywordExhausted">>
                    /\ ret' = Null
       ELSE /\ outcomes' = Append(outcomes, "Success")
            /\ pc' = "done"
            /\ toasts' = toasts \o ts \o (IF att > 1 THEN <<"Success">> ELSE <<>>)
            /\ ret' = content

\* an exception that leaves makeApiCall: the loop has no handler, so the
\* promise of callInterceptionApi rejects
CallRejects(ts) ==
    /\ attempt' = attempt
    /\ outcomes' = Append(outcomes, "Rejected")
    /\ pc' = "done"
    /\ toasts' = toasts \o ts
    /\ ret' = Rejected

\* connectionManager.profiles.find(p => p.id === profileId)
TargetProfiles == {p \in hostContext.profiles : p.id = apiSettings.tavernProfile}

targetProfile == CHOOSE p \in TargetProfiles : TRUE

\* the target exists, has an API and a preset
TargetUsable ==
    /\ TargetProfiles # {}
    /\ targetProfile.api
    /\ targetProfile.preset

(***************************************************************************)
(* makeApiCall, from its invocation in iteration att to its first          *)
(* suspension point: assembly, the empty-prompt check, the mode branch.    *)
(***************************************************************************)
\* an empty-prompt check that never stops the call
MessagesEmptyIgnored(msgs) == FALSE

\* if (messages.length === 0): nothing to send
MessagesEmpty(msgs) == Len(msgs) = 0

MakeApiCall(att) ==
    LET msgs == AssembleMessages IN
    /\ attemptsMade' = attemptsMade + 1
    /\ messages' = msgs
    /\ steps' = <<>>
    /\ profileBefore' = activeProfile
    /\ originalProfile' = ""
    /\ responsePromise' = "none"
    /\ IF MessagesEmpty(msgs)
       THEN /\ LoopAfterAttempt(att, Null, <<"EmptyPrompt">>)
            /\ requests' = requests
       ELSE IF apiSettings.apiMode = "tavern"
       THEN IF apiSettings.tavernProfile = ""
            THEN /\ LoopAfterAttempt(att, Null, <<"NoProfile">>)
                 /\ requests' = requests
            ELSE /\ pc' = "tv_readOriginal"
                 /\ attempt' = att
                 /\ UNCHANGED <<ret, toasts, outcomes, requests>>
       ELSE IF apiSettings.apiMode = "perfect"
       THEN IF apiSettings.tavernProfile = ""
            THEN /\ LoopAfterAttempt(att, Null, <<"NoProfile">>)
                 /\ requests' = requests
            ELSE \/ /\ pc' = "perfect_await"
                    /\ attempt' = att
                    /\ requests' = requests + 1
                    /\ UNCHANGED <<ret, toasts, outcomes>>
                 \/ \E e \in ErrorKinds :
                      /\ LoopAfterAttempt(att, Null, <<ErrorToast(e)>>)
                      /\ requests' = requests
       ELSE /\ pc' = IF apiSettings.apiMode = "backend" THEN "backend_await"
                     ELSE IF apiSettings.useStreaming THEN "stream_await"
                     ELSE "json_await"
            /\ attempt' = att
            /\ requests' = requests + 1
            /\ UNCHANGED <<ret, toasts, outcomes>>

\* callInterceptionApi is called: the URL check, then the first iteration
CallInterceptionApi ==
    /\ pc = "idle"
    /\ IF apiSettings.apiUrl = <<>>
       THEN /\ pc' = "done"
            /\ ret' = Null
            /\ UNCHANGED <<attempt, messages, originalProfile, responsePromise,
                           toasts, attemptsMade, requests, outcomes, steps,
                           profileBefore>>
       ELSE MakeApiCall(1)
    /\ UNCHANGED <<config, activeProfile, backoffs, profileSwitches>>

\* the 1-second timer of the loop fires: continue with the next iteration
BackoffElapsed ==
    /\ pc = "backoff"
    /\ backoffs' = backoffs + 1
    /\ MakeApiCall(attempt + 1)
    /\ UNCHANGED <<config, activeProfile, profileSwitches>>

(***************************************************************************)
(* Direct, proxied and perfect-mode transports: the awaited request        *)
(* settles.                                                                *)
(***************************************************************************)
dispatchLocals ==
    <<messages, originalProfile, responsePromise, steps, profileSwitches,
      profileBefore>>

\* try { result = ... } catch (error) { toastr.error(...); result = null; }
CaughtTransport(awaitPc) ==
    /\ pc = awaitPc
    /\ \/ \E r \in Results : LoopAfterAttempt(attempt, ResultContent(r), <<>>)
       \/ \E e \in ErrorKinds : LoopAfterAttempt(attempt, Null, <<ErrorToast(e)>>)
    /\ UNCHANGED <<config, activeProfile, dispatchLocals, attemptsMade, backoffs,
                   requests>>

\* fetchWithStreamAndTimeout settles: the trimmed accumulated text, or an error
StreamResponse ==
    /\ pc = "stream_await"
    /\ \/ \E c \in Contents :
            LoopAfterAttempt(attempt,
                ResultContent([kind |-> "object", content |-> Trim(c)]), <<>>)
       \/ \E e \in ErrorKinds : LoopAfterAttempt(attempt, Null, <<ErrorToast(e)>>)
    /\ UNCHANGED <<config, activeProfile, dispatchLocals, attemptsMade, backoffs,
                   requests>>

\* fetchJsonWithTimeout settles and normalizeApiResponse shapes the result
JsonResponse == CaughtTransport("json_await")

\* sendRequest of the perfect mode settles, under withTimeout
PerfectResponse == CaughtTransport("perfect_await")

\* callApiViaBackend settles: the normalized response of $.ajax under
\* withTimeout, or null after its own catch block
BackendResponse == CaughtTransport("backend_await")


(***************************************************************************)
(* The tavern branch of makeApiCall: switch, request, restore.  Every      *)
(* triggerSlash call is a suspension point and may fail; a failing switch  *)
(* may or may not have changed the host's active profile.                  *)
(***************************************************************************)
\* catch (error) { toastr.error(...); responsePromise = Promise.resolve(null) }
\* and then on to the first await of the finally block
TvCatch(e, did) ==
    /\ toasts' = toasts \o <<ErrorToast(e)>>
    /\ responsePromise' = "resolvedNull"
    /\ steps' = steps \o did \o <<"caught">>
    /\ pc' = "tv_readAfter"
    /\ requests' = requests

\* sendRequest(targetProfile.id, messages) under withTimeout: the request is
\* issued, or the call throws at once
TvSendRequest(did) ==
    \/ /\ requests' = requests + 1
       /\ responsePromise' = "request"
       /\ steps' = steps \o did \o <<"request">>
       /\ pc' = "tv_readAfter"
       /\ toasts' = toasts
    \/ \E e \in ErrorKinds : TvCatch(e, did \o <<"requestThrew">>)

tvFrame == <<config, messages, attempt, ret, outcomes, attemptsMade, backoffs,
             profileBefore>>

\* originalProfile = await triggerSlash('/profile'), then the profile lookup
TvReadOriginal ==
    /\ pc = "tv_readOriginal"
    /\ \/ /\ originalProfile' = activeProfile
          /\ IF TargetUsable
             THEN /\ pc' = "tv_readCurrent"
                  /\ steps' = Append(steps, "readOriginal")
                  /\ UNCHANGED <<toasts, responsePromise, requests>>
             ELSE TvCatch("other", <<"readOriginal">>)
       \/ /\ originalProfile' = originalProfile
          /\ \E e \in ErrorKinds : TvCatch(e, <<"readOriginalFailed">>)
    /\ UNCHANGED <<tvFrame, activeProfile, profileSwitches>>

\* currentProfile = await triggerSlash('/profile'); switch when it differs
TvReadCurrent ==
    /\ pc = "tv_readCurrent"
    /\ \/ IF activeProfile # targetProfile.name
          THEN /\ pc' = "tv_switch"
               /\ steps' = Append(steps, "readCurrent")
               /\ UNCHANGED <<toasts, responsePromise, requests>>
          ELSE TvSendRequest(<<"readCurrent">>)
       \/ \E e \in ErrorKinds : TvCatch(e, <<"readCurrentFailed">>)
    /\ UNCHANGED <<tvFrame, activeProfile, originalProfile, profileSwitches>>

\* await triggerSlash('/profile await=true "<target>"'), then the request
TvSwitch ==
    /\ pc = "tv_switch"
    /\ profileSwitches' = profileSwitches + 1
    /\ \/ /\ activeProfile' = targetProfile.name
          /\ TvSendRequest(<<"switch">>)
       \/ /\ activeProfile' \in {activeProfile, targetProfile.name}
          /\ \E e \in ErrorKinds : TvCatch(e, <<"switchFailed">>)
    /\ UNCHANGED <<tvFrame, originalProfile>>

\* finally: currentProfileAfterCall = await triggerSlash('/profile'); restore
\* when originalProfile is non-empty and differs
TvReadAfter ==
    /\ pc = "tv_readAfter"
    /\ \/ /\ pc' = IF originalProfile # "" /\ originalProfile # activeProfile
                   THEN "tv_restore" ELSE "tv_await"
          /\ steps' = Append(steps, "readAfter")
          /\ UNCHANGED <<attempt, outcomes, toasts, ret>>
       \/ /\ CallRejects(<<>>)
          /\ steps' = Append(steps, "readAfterFailed")
    /\ UNCHANGED <<config, messages, attemptsMade, backoffs, profileBefore,
                   activeProfile, originalProfile, responsePromise, requests,
                   profileSwitches>>

\* finally: await triggerSlash('/profile await=true "<original>"')
TvRestore ==
    /\ pc = "tv_restore"
    /\ profileSwitches' = profileSwitches + 1
    /\ \/ /\ activeProfile' = originalProfile
          /\ pc' = "tv_await"
          /\ steps' = Append(steps, "restore")
          /\ UNCHANGED <<attempt, outcomes, toasts, ret>>
       \/ /\ activeProfile' \in {activeProfile, originalProfile}
          /\ CallRejects(<<>>)
          /\ steps' = Append(steps, "restoreFailed")
    /\ UNCHANGED <<config, messages, attemptsMade, backoffs, profileBefore,
                   originalProfile, responsePromise, requests>>

\* result = await responsePromise, outside every try block: the resolved
\* null of the catch block, the response of the request, or the rejection of
\* the request or of its 60-second timer
TvAwait ==
    /\ pc = "tv_await"
    /\ IF responsePromise = "resolvedNull"
       THEN /\ LoopAfterAttempt(attempt, Null, <<>>)
            /\ steps' = Append(steps, "consumeNull")
       ELSE \/ /\ \E r \in Results : LoopAfterAttempt(attempt, ResultContent(r), <<>>)
               /\ steps' = Append(steps, "consume")
            \/ /\ CallRejects(<<>>)
               /\ steps' \in {Append(steps, "requestRejected"),
                              Append(steps, "requestTimedOut")}
    /\ UNCHANGED <<config, messages, attemptsMade, backoffs, profileBefore,
                   activeProfile, originalProfile, responsePromise, requests,
                   profileSwitches>>

(***************************************************************************)
(* Initial states: one call with its settings, arguments and host state.   *)
(***************************************************************************)
Modes == {"frontend", "google", "backend", "tavern", "perfect"}

\* apiSettings.requiredKeywords, a comma-separated text
KeywordSettings ==
    { <<>>, <<"A">>, <<"A", ",", " ", "B">>, <<" ", ",">> }

Entry(content, role, enabled) ==
    [content |-> content, role |-> role, enabled |-> enabled]

NoHistory == [userMessage |-> <<>>, contextMessages |-> <<>>]

SomeHistory ==
    [userMessage |-> <<"x">>,
     contextMessages |-> <<[role |-> "assistant", content |-> <<"x">>]>>]

\* the prompt configurations of a call: templates, jailbreak sequence, mode
\* and history
PromptSetups ==
    { [mainPrompt |-> <<"x", "$", "1">>, systemPrompt |-> <<"$", "7">>,
       promptMode |-> "classic", jailbreakPrompts |-> <<>>,
       history |-> SomeHistory],
      [mainPrompt |-> <<>>, systemPrompt |-> <<>>,
       promptMode |-> "classic", jailbreakPrompts |-> <<>>,
       history |-> NoHistory],
      [mainPrompt |-> <<" ">>, systemPrompt |-> <<"$", "1">>,
       promptMode |-> "classic",
       jailbreakPrompts |-> <<Entry(<<"x">>, "user", FALSE), Entry(<<" ">>, "", TRUE)>>,
       history |-> NoHistory],
      [mainPrompt |-> <<"x">>, systemPrompt |-> <<"x">>,
       promptMode |-> "jailbreak",
       jailbreakPrompts |-> <<Entry(CORE_PROMPTS, "system", TRUE)>>,
       history |-> SomeHistory],
      [mainPrompt |-> <<"x">>, systemPrompt |-> <<>>,
       promptMode |-> "classic",
       jailbreakPrompts |-> <<Entry(<<"x">>, "user", TRUE),
                              Entry(CORE_PROMPTS, "system", TRUE)>>,
       history |-> NoHistory] }

\* the connection profile the settings name, as the host may hold it
Profile(api, preset) == [id |-> "p1", name |-> "T", api |-> api, preset |-> preset]

ProfileLists ==
    { {}, {Profile(TRUE, TRUE)}, {Profile(FALSE, TRUE)}, {Profile(TRUE, FALSE)} }

\* the host's active profile: none, another profile, the target
ActiveProfiles == {"", "O", "T"}

Init ==
    /\ \E url \in {<<>>, <<"u">>}, mode \in Modes, streaming \in BOOLEAN,
          kw \in KeywordSettings, n \in 0..MaxRetriesCfg,
          prof \in {"", "p1"}, ps \in PromptSetups, profiles \in ProfileLists :
         \* settings that the mode never reads keep one value
         /\ (mode \notin {"frontend", "google"} => streaming)
         /\ (mode \notin {"tavern", "perfect"} => prof = "")
         /\ (mode # "tavern" => profiles = {})
         /\ (url = <<>> => mode = "frontend" /\ streaming /\ kw = <<>> /\ n = 0)
         /\ apiSettings = [apiUrl |-> url, apiMode |-> mode,
                           useStreaming |-> streaming, requiredKeywords |-> kw,
                           maxRetries |-> n, tavernProfile |-> prof,
                           mainPrompt |-> ps.mainPrompt,
                           systemPrompt |-> ps.systemPrompt,
                           worldbookEnabled |-> FALSE]
         /\ globalSettings = [promptMode |-> ps.promptMode,
                              jailbreakPrompts |-> ps.jailbreakPrompts]
         /\ callArgs = [userMessage |-> ps.history.userMessage,
                        contextMessages |-> ps.history.contextMessages,
                        worldbookContent |-> <<"x">>,
                        tableDataContent |-> <<>>]
         /\ hostContext = [persona_description |-> <<"x", " ">>,
                           description |-> <<>>,
                           profiles |-> profiles]
         /\ activeProfile \in
              (IF mode = "tavern" THEN ActiveProfiles ELSE {"O"})
    /\ pc = "idle"
    /\ attempt = 0
    /\ messages = <<>>
    /\ originalProfile = ""
    /\ responsePromise = "none"
    /\ ret = Pending
    /\ toasts = <<>>
    /\ attemptsMade = 0
    /\ backoffs = 0
    /\ requests = 0
    /\ outcomes = <<>>
    /\ steps = <<>>
    /\ profileSwitches = 0
    /\ profileBefore = ""
    /\ dispatches = <<>>
    /\ StreamUnused
    /\ LoreUnused
    /\ RestUnused

Next ==
    \/ CallInterceptionApi /\ UNCHANGED notCallVars
    \/ BackoffElapsed /\ UNCHANGED notCallVars
    \/ StreamResponse /\ UNCHANGED notCallVars
    \/ JsonResponse /\ UNCHANGED notCallVars
    \/ PerfectResponse /\ UNCHANGED notCallVars
    \/ BackendResponse /\ UNCHANGED notCallVars
    \/ TvReadOriginal /\ UNCHANGED notCallVars
    \/ TvReadCurrent /\ UNCHANGED notCallVars
    \/ TvSwitch /\ UNCHANGED notCallVars
    \/ TvReadAfter /\ UNCHANGED notCallVars
    \/ TvRestore /\ UNCHANGED notCallVars
    \/ TvAwait /\ UNCHANGED notCallVars

Spec == Init /\ [][Next]_vars


(***************************************************************************)
(* Properties.                                                             *)
(***************************************************************************)
Has(seq, x) == \E i \in 1..Len(seq) : seq[i] = x

Count(seq, x) == Cardinality({i \in 1..Len(seq) : seq[i] = x})

Last(seq) == seq[Len(seq)]

\* the position of the first x in seq, 0 when there is none
First(seq, x) ==
    IF Has(seq, x) THEN CHOOSE i \in 1..Len(seq) :
                            seq[i] = x /\ \A j \in 1..(i - 1) : seq[j] # x
    ELSE 0

LoopEntered == apiSettings.apiUrl # <<>> /\ pc # "idle"

AllNoContent == \A i \in 1..Len(outcomes) : outcomes[i] = "NoContent"

\* C1: when every attempt ends without content and maxRetries = N, each
\* attempt after the first follows exactly one completed 1-second wait, a wait
\* is only begun while attempts remain, and the call ends after exactly N
\* attempts and N-1 waits with null and the 'retries exhausted' notification.
C1_RetryExhaustion ==
    (LoopEntered /\ AllNoContent) =>
        /\ backoffs = attemptsMade - 1
        /\ attemptsMade = attempt
        /\ (pc = "backoff" => attemptsMade < maxRetries)
        /\ (pc = "done" =>
              /\ attemptsMade = maxRetries
              /\ backoffs = maxRetries - 1
              /\ ret = Null
              /\ Last(toasts) = "RetriesExhausted"
              /\ Count(toasts, "RetriesExhausted") = 1)

\* three attempts of a configured maxRetries = 3, each with a transport
\* request that brought no content, and the terminal failure
C1_Witness ==
    /\ LoopEntered /\ AllNoContent
    /\ pc = "done"
    /\ apiSettings.maxRetries = 3
    /\ attemptsMade = 3
    /\ requests = 3
    /\ backoffs = 2

\* C2: whatever the attempts returned, a non-null value that
\* callInterceptionApi resolves with is a non-empty string containing every
\* required keyword.
C2_ReturnedContentValidated ==
    ret.kind = "string" =>
        /\ Len(ret.value) > 0
        /\ \A i \in 1..Len(requiredKeywords) : Includes(ret.value, requiredKeywords[i])

\* a content is returned under two required keywords after an earlier attempt
\* failed validation
C2_Witness ==
    /\ ret.kind = "string"
    /\ Len(requiredKeywords) = 2
    /\ Has(outcomes, "KeywordFailed")

\* C3: callInterceptionApi resolves to a string or null and never rejects.
C3_NeverRejects == ret.kind # "rejected"

\* C4: a tavern request that rejects or times out after it was issued counts
\* as one attempt without content and, while attempts remain, is followed by
\* the backoff.
C4_TavernFailureRetried ==
    (steps # <<>> /\ Last(steps) \in {"requestRejected", "requestTimedOut"}) =>
        /\ ret.kind # "rejected"
        /\ Last(outcomes) = "NoContent"
        /\ (attempt < maxRetries => pc = "backoff")

\* C5: with the mode tavern or perfect and no profile selected, the call makes
\* one attempt, waits for no backoff and ends with the configuration failure,
\* not with the 'retries exhausted' failure.
C5_ConfigErrorNotRetried ==
    (/\ apiSettings.apiMode \in {"tavern", "perfect"}
     /\ apiSettings.tavernProfile = ""
     /\ Has(toasts, "NoProfile")) =>
        /\ pc = "done"
        /\ attemptsMade = 1
        /\ backoffs = 0
        /\ Count(toasts, "NoProfile") = 1
        /\ ~Has(toasts, "RetriesExhausted")

\* C6: when assembly produces no message, the call assembles once, emits the
\* empty-prompt failure once, waits for no backoff and returns.
C6_EmptyPromptNotRetried ==
    Has(toasts, "EmptyPrompt") =>
        /\ pc = "done"
        /\ attemptsMade = 1
        /\ backoffs = 0
        /\ Count(toasts, "EmptyPrompt") = 1

\* C7: when assembly produces no message, no transport request is issued and
\* no profile switch is performed during the whole call.
C7_EmptyPromptNoTransport ==
    (attemptsMade > 0 /\ Len(messages) = 0) =>
        /\ requests = 0
        /\ profileSwitches = 0
        /\ pc \in {"backoff", "done"}

\* a tavern call with a usable profile ran all its attempts on an empty
\* message list
C7_Witness ==
    /\ apiSettings.apiMode = "tavern"
    /\ apiSettings.tavernProfile # ""
    /\ TargetUsable
    /\ Len(messages) = 0
    /\ attemptsMade = 3
    /\ pc = "done"

FinallySteps == {"tv_readAfter", "tv_restore"}

\* the tavern dispatch of the running attempt is over: its finally block ran
\* to its end without a failing host call
DispatchEnded ==
    /\ apiSettings.apiMode = "tavern"
    /\ Has(steps, "readAfter")
    /\ pc \notin FinallySteps
    /\ ~Has(steps, "restoreFailed")

\* C8: after a tavern dispatch has ended, the host's active profile is the one
\* that was active before the dispatch, whatever it was.
C8_ProfileRestored == DispatchEnded => activeProfile = profileBefore

RequestThrew ==
    \/ Has(steps, "requestThrew")
    \/ Has(steps, "requestRejected")
    \/ Has(steps, "requestTimedOut")

\* C9: when the dispatch switched to the target and the request then threw,
\* the restoring switch was issued exactly once.
C9_RestoreIssuedOnce ==
    (DispatchEnded /\ Has(steps, "switch") /\ RequestThrew) =>
        Count(steps, "restore") = 1

ConsumeSteps == {"consume", "consumeNull", "requestRejected", "requestTimedOut"}

\* C10: when the response of a dispatch that switched to the target is
\* consumed, the steps were: read, switch, request, restore, consume, and the
\* target is no longer the active profile.
C10_RestoreBeforeConsume ==
    (steps # <<>> /\ Last(steps) \in ConsumeSteps /\ Has(steps, "switch")
        /\ Has(steps, "request")) =>
        /\ steps[1] = "readOriginal"
        /\ First(steps, "readOriginal") < First(steps, "switch")
        /\ First(steps, "switch") < First(steps, "request")
        /\ First(steps, "request") < First(steps, "restore")
        /\ First(steps, "restore") < Len(steps)
        /\ activeProfile # targetProfile.name



(***************************************************************************)
(* Overlapping tavern dispatches.  The tavern branch of makeApiCall and    *)
(* the tavern branch of testApiConnection run on the one event loop and    *)
(* share the host's active profile; nothing in either serialises them, so  *)
(* the code between two awaits of one may run between two awaits of the    *)
(* other.  The host is taken at its best here: every slash command is      *)
(* executed and none fails.                                                *)
(***************************************************************************)
NumDispatches == 2

Dispatches == 1..NumDispatches

\* every variable of the call but the host's active profile
overlapFrame ==
    <<apiSettings, globalSettings, callArgs, hostContext, pc, attempt, messages,
      originalProfile, responsePromise, ret, toasts, attemptsMade, backoffs,
      requests, outcomes, steps, profileSwitches, profileBefore, streamVars,
      loreVars, restVars>>

\* let originalProfile = ''; let responsePromise; and the first triggerSlash
NewDispatch(kind) ==
    [kind |-> kind, pc |-> "readOriginal", originalProfile |-> "",
     responsePromise |-> "none"]

\* the try block is left (normally, or by a throw): the finally block issues
\* triggerSlash('/profile').  makeApiCall catches a throw and continues with
\* Promise.resolve(null); testApiConnection has no catch there, the throw
\* stays pending and responsePromise stays undefined
OvLeaveTry(d, orig, threw) ==
    dispatches' = [dispatches EXCEPT ![d] =
        [@ EXCEPT !.pc = "readAfter",
                  !.originalProfile = orig,
                  !.responsePromise =
                      IF ~threw THEN "request"
                      ELSE IF dispatches[d].kind = "call" THEN "resolvedNull"
                      ELSE "none"]]

\* sendRequest and withTimeout; testApiConnection checks api and preset here,
\* after the switch
OvSendRequest(d) ==
    OvLeaveTry(d, dispatches[d].originalProfile,
               dispatches[d].kind = "test" /\ ~TargetUsable)

\* originalProfile = await triggerSlash('/profile'), the lookup of the target
\* and, in makeApiCall, the api and preset checks
OvReadOriginal(d) ==
    /\ dispatches[d].pc = "readOriginal"
    /\ IF TargetProfiles = {} \/ (dispatches[d].kind = "call" /\ ~TargetUsable)
       THEN OvLeaveTry(d, activeProfile, TRUE)
       ELSE dispatches' = [dispatches EXCEPT ![d] =
                [@ EXCEPT !.pc = "readCurrent", !.originalProfile = activeProfile]]
    /\ UNCHANGED <<overlapFrame, activeProfile>>

\* currentProfile = await triggerSlash('/profile'); switch when it differs
OvReadCurrent(d) ==
    /\ dispatches[d].pc = "readCurrent"
    /\ IF activeProfile # targetProfile.name
       THEN dispatches' = [dispatches EXCEPT ![d].pc = "switch"]
       ELSE OvSendRequest(d)
    /\ UNCHANGED <<overlapFrame, activeProfile>>

\* await triggerSlash('/profile await=true "<target>"'), then the request
OvSwitch(d) ==
    /\ dispatches[d].pc = "switch"
    /\ activeProfile' = targetProfile.name
    /\ OvSendRequest(d)
    /\ UNCHANGED overlapFrame

\* the finally block is left: await responsePromise, or, in testApiConnection
\* after a throw, the outer catch and return false
OvLeaveFinally(d) ==
    dispatches' = [dispatches EXCEPT ![d].pc =
        IF dispatches[d].responsePromise = "none" THEN "done" ELSE "await"]

\* finally: currentProfileAfterCall = await triggerSlash('/profile')
OvReadAfter(d) ==
    /\ dispatches[d].pc = "readAfter"
    /\ IF /\ dispatches[d].originalProfile # ""
          /\ dispatches[d].originalProfile # activeProfile
       THEN dispatches' = [dispatches EXCEPT ![d].pc = "restore"]
       ELSE OvLeaveFinally(d)
    /\ UNCHANGED <<overlapFrame, activeProfile>>

\* finally: await triggerSlash('/profile await=true "<originalProfile>"')
OvRestore(d) ==
    /\ dispatches[d].pc = "restore"
    /\ activeProfile' = dispatches[d].originalProfile
    /\ OvLeaveFinally(d)
    /\ UNCHANGED overlapFrame

\* result = await responsePromise settles (content, null, rejection, timeout)
OvAwait(d) ==
    /\ dispatches[d].pc = "await"
    /\ dispatches' = [dispatches EXCEPT ![d].pc = "done"]
    /\ UNCHANGED <<overlapFrame, activeProfile>>

\* the dispatches that overlap: callInterceptionApi calls, or one of them
\* with testApiConnection
DispatchKinds ==
    {k \in [Dispatches -> {"call", "test"}] : \E d \in Dispatches : k[d] = "call"}

\* both dispatches have been invoked and wait for their first triggerSlash;
\* the host is on a named profile
InitOverlap ==
    /\ \E profiles \in ProfileLists :
         hostContext = [persona_description |-> <<>>, description |-> <<>>,
                        profiles |-> profiles]
    /\ apiSettings = [apiUrl |-> <<"u">>, apiMode |-> "tavern",
                      useStreaming |-> TRUE, requiredKeywords |-> <<>>,
                      maxRetries |-> 0, tavernProfile |-> "p1",
                      mainPrompt |-> <<"x">>, systemPrompt |-> <<>>,
                      worldbookEnabled |-> FALSE]
    /\ globalSettings = [promptMode |-> "classic", jailbreakPrompts |-> <<>>]
    /\ callArgs = [userMessage |-> <<>>, contextMessages |-> <<>>,
                   worldbookContent |-> <<>>, tableDataContent |-> <<>>]
    /\ activeProfile \in {"O", "T"}
    /\ profileBefore = activeProfile
    /\ \E k \in DispatchKinds : dispatches = [d \in Dispatches |-> NewDispatch(k[d])]
    /\ pc = "idle"
    /\ attempt = 0
    /\ messages = <<>>
    /\ originalProfile = ""
    /\ responsePromise = "none"
    /\ ret = Pending
    /\ toasts = <<>>
    /\ attemptsMade = 0
    /\ backoffs = 0
    /\ requests = 0
    /\ outcomes = <<>>
    /\ steps = <<>>
    /\ profileSwitches = 0
    /\ StreamUnused
    /\ LoreUnused
    /\ RestUnused

NextOverlap ==
    \/ \E d \in Dispatches : OvReadOriginal(d)
    \/ \E d \in Dispatches : OvReadCurrent(d)
    \/ \E d \in Dispatches : OvSwitch(d)
    \/ \E d \in Dispatches : OvReadAfter(d)
    \/ \E d \in Dispatches : OvRestore(d)
    \/ \E d \in Dispatches : OvAwait(d)

SpecOverlap == InitOverlap /\ [][NextOverlap]_vars

AllDispatchesDone == \A d \in Dispatches : dispatches[d].pc = "done"

\* C11: when two tavern dispatches overlap, then after both have completed
\* the host's active profile is the one that was active before the first of
\* them began.
C11_OverlapRestoresProfile ==
    AllDispatchesDone => activeProfile = profileBefore


(***************************************************************************)
(* fetchWithStreamAndTimeout.  The response body is a sequence of          *)
(* characters in which "\n" is the newline, "data: " stands for the six    *)
(* characters of the SSE data marker, "{A}" and "{g}" for a JSON payload   *)
(* of the OpenAI and of the Google family, "[DONE]" for the end marker and *)
(* "x" for text that is not JSON.  Time is counted in milliseconds and     *)
(* advances by the period of the watchdog.                                 *)
(***************************************************************************)
MaxLines == 2

MaxTicks == 27

CHUNK_TIMEOUT == 25000

WatchdogInterval == 1000

Threw(message) == [kind |-> "rejected", value |-> <<message>>]

\* text.split('\n'), cur being the piece that is read
RECURSIVE SplitLines(_, _)
SplitLines(text, cur) ==
    IF text = <<>> THEN <<cur>>
    ELSE IF Head(text) = "\n" THEN <<cur>> \o SplitLines(Tail(text), <<>>)
    ELSE SplitLines(Tail(text), Append(cur, Head(text)))

\* the payloads JSON.parse accepts
JsonPayloads == {"{A}", "{g}"}

\* parsed.choices?.[0]?.delta?.content
OpenAiDelta(payload) == IF payload = "{A}" THEN <<"A", " ">> ELSE <<>>

\* parsed.candidates?.[0]?.content?.parts?.[0]?.text
GoogleText(payload) == IF payload = "{g}" THEN <<" ", "g">> ELSE <<>>

\* what one line adds to accumulatedContent: nothing unless it starts with
\* 'data: ', is not '[DONE]', parses, and has content at the family's path
LineIncrement(line, google) ==
    IF line = <<>> \/ Head(line) # "data: " THEN <<>>
    ELSE LET data == Trim(Tail(line)) IN
         IF data = <<"[DONE]">> THEN <<>>
         ELSE IF Len(data) = 1 /\ data[1] \in JsonPayloads
              THEN IF google THEN GoogleText(data[1]) ELSE OpenAiDelta(data[1])
              ELSE <<>>

\* for (const line of lines) { ... accumulatedContent += content }
RECURSIVE Increments(_, _)
Increments(lines, google) ==
    IF lines = <<>> THEN <<>>
    ELSE LineIncrement(Head(lines), google) \o Increments(Tail(lines), google)

StreamSettleKeepsTimer(r) ==
    /\ streamRet' = r
    /\ streamPc' = "done"
    /\ settledAt' = now
    /\ timeoutId' = timeoutId
    /\ reader' = "released"

\* finally { clearInterval(timeoutId); reader.releaseLock(); } and the
\* settlement of the call
StreamSettle(r) ==
    /\ streamRet' = r
    /\ streamPc' = "done"
    /\ settledAt' = now
    /\ timeoutId' = "cleared"
    /\ reader' = "released"

\* await fetch(url, streamOptions) settles: the request fails, or the
\* response is not ok (its text is read and an HTTP error thrown), or the
\* reader is acquired and the watchdog started
FetchSettles ==
    /\ streamPc = "fetch"
    /\ \/ /\ \E e \in {"NetworkError", "HttpError"} : streamRet' = Threw(e)
          /\ streamPc' = "done"
          /\ settledAt' = now
          /\ UNCHANGED <<reader, timeoutId>>
       \/ /\ reader' = "locked"
          /\ timeoutId' = "set"
          /\ streamPc' = "read"
          /\ UNCHANGED <<streamRet, settledAt>>
    /\ UNCHANGED <<isGoogleApi, body, received, now, lastChunkTime, buffer,
                   accumulatedContent, cancelled, lastArrival, watchdogRanAt,
                   uncaught>>

\* one period of the watchdog passes; checkTimeout runs when the interval
\* timer is set: it cancels the reader and throws inside the timer callback.
\* A settled call is followed for one more period.
ClockTick ==
    /\ now < MaxTicks * WatchdogInterval
    /\ streamPc = "done" => now = settledAt
    /\ now' = now + WatchdogInterval
    /\ IF timeoutId = "set"
       THEN /\ watchdogRanAt' = now'
            /\ IF now' - lastChunkTime > CHUNK_TIMEOUT
               THEN /\ cancelled' = TRUE
                    /\ uncaught' = uncaught \cup {"StreamTimeout"}
               ELSE UNCHANGED <<cancelled, uncaught>>
       ELSE UNCHANGED <<watchdogRanAt, cancelled, uncaught>>
    /\ UNCHANGED <<isGoogleApi, body, received, lastChunkTime, timeoutId, buffer,
                   accumulatedContent, reader, streamPc, streamRet, lastArrival,
                   settledAt>>

ResetInactivityClockNever == lastChunkTime' = lastChunkTime

\* lastChunkTime = Date.now()
ResetInactivityClock == lastChunkTime' = now

\* reader.read() resolves with a chunk: the next n characters of the body
ReadChunk ==
    /\ streamPc = "read"
    /\ ~cancelled
    /\ \E n \in 1..(Len(body) - received) :
         LET lines == SplitLines(buffer \o SubSeq(body, received + 1, received + n),
                                 <<>>)
         IN /\ received' = received + n
            /\ buffer' = lines[Len(lines)]
            /\ accumulatedContent' =
                   accumulatedContent \o
                   Increments(SubSeq(lines, 1, Len(lines) - 1), isGoogleApi)
    /\ ResetInactivityClock
    /\ lastArrival' = now
    /\ UNCHANGED <<isGoogleApi, body, now, timeoutId, reader, cancelled, streamPc,
                   streamRet, watchdogRanAt, settledAt, uncaught>>

\* reader.read() resolves with done: the body has ended, or the reader was
\* cancelled (a cancelled stream is closed and its pending read resolves
\* with done)
ReadDone ==
    /\ streamPc = "read"
    /\ cancelled \/ received = Len(body)
    /\ StreamSettle(IF accumulatedContent = <<>> THEN Threw("NoContent")
                    ELSE Str(Trim(accumulatedContent)))
    /\ UNCHANGED <<isGoogleApi, body, received, now, lastChunkTime, buffer,
                   accumulatedContent, cancelled, lastArrival, watchdogRanAt,
                   uncaught>>

\* reader.read() rejects: the connection broke
ReadRejects ==
    /\ streamPc = "read"
    /\ ~cancelled
    /\ StreamSettle(Threw("NetworkError"))
    /\ UNCHANGED <<isGoogleApi, body, received, now, lastChunkTime, buffer,
                   accumulatedContent, cancelled, lastArrival, watchdogRanAt,
                   uncaught>>

\* the lines a server may send
StreamLines ==
    { <<"data: ", "{A}">>, <<"data: ", "{g}", " ">>, <<"data: ", "[DONE]">>,
      <<"data: ", "x">> }

\* the lines joined by newlines, the last one terminated or not
RECURSIVE JoinLines(_, _)
JoinLines(lines, terminated) ==
    IF lines = <<>> THEN <<>>
    ELSE IF Len(lines) = 1 /\ ~terminated THEN Head(lines)
    ELSE Head(lines) \o <<"\n">> \o JoinLines(Tail(lines), terminated)

Bodies ==
    { JoinLines(ls, t) :
        ls \in UNION {[1..n -> StreamLines] : n \in 0..MaxLines}, t \in BOOLEAN }

\* no callInterceptionApi call is modelled
CallUnused ==
    /\ apiSettings = [apiUrl |-> <<"u">>, apiMode |-> "frontend",
                      useStreaming |-> TRUE, requiredKeywords |-> <<>>,
                      maxRetries |-> 0, tavernProfile |-> "",
                      mainPrompt |-> <<"x">>, systemPrompt |-> <<>>,
                      worldbookEnabled |-> FALSE]
    /\ globalSettings = [promptMode |-> "classic", jailbreakPrompts |-> <<>>]
    /\ callArgs = [userMessage |-> <<>>, contextMessages |-> <<>>,
                   worldbookContent |-> <<>>, tableDataContent |-> <<>>]
    /\ hostContext = [persona_description |-> <<>>, description |-> <<>>,
                      profiles |-> {}]
    /\ activeProfile = "O"
    /\ pc = "idle"
    /\ attempt = 0
    /\ messages = <<>>
    /\ originalProfile = ""
    /\ responsePromise = "none"
    /\ ret = Pending
    /\ toasts = <<>>
    /\ attemptsMade = 0
    /\ backoffs = 0
    /\ requests = 0
    /\ outcomes = <<>>
    /\ steps = <<>>
    /\ profileSwitches = 0
    /\ profileBefore = ""

\* fetchWithStreamAndTimeout has been called: lastChunkTime = Date.now() and
\* the fetch is awaited
InitStream ==
    /\ isGoogleApi \in BOOLEAN
    /\ body \in Bodies
    /\ received = 0
    /\ now = 0
    /\ lastChunkTime = 0
    /\ timeoutId = "unset"
    /\ buffer = <<>>
    /\ accumulatedContent = <<>>
    /\ reader = "none"
    /\ cancelled = FALSE
    /\ streamPc = "fetch"
    /\ streamRet = Pending
    /\ lastArrival = 0
    /\ watchdogRanAt = -1
    /\ settledAt = -1
    /\ uncaught = {}
    /\ CallUnused
    /\ dispatches = <<>>
    /\ LoreUnused
    /\ RestUnused

NextStream ==
    \/ FetchSettles /\ UNCHANGED <<callVars, dispatches, loreVars, restVars>>
    \/ ClockTick /\ UNCHANGED <<callVars, dispatches, loreVars, restVars>>
    \/ ReadChunk /\ UNCHANGED <<callVars, dispatches, loreVars, restVars>>
    \/ ReadDone /\ UNCHANGED <<callVars, dispatches, loreVars, restVars>>
    \/ ReadRejects /\ UNCHANGED <<callVars, dispatches, loreVars, restVars>>

SpecStream == InitStream /\ [][NextStream]_vars


\* C12: when no chunk arrives for longer than the 25-second window (the
\* watchdog cancelled the reader), the call fails with the stream-timeout
\* error, whether or not text had been accumulated.
C12_StallFailsWithTimeout ==
    (streamPc = "done" /\ cancelled) => streamRet = Threw("StreamTimeout")

\* C13: once the reader is acquired, every exit path releases the reader lock
\* and stops the interval timer, and checkTimeout does not run after the call
\* has settled.
C13_ReaderReleasedTimerStopped ==
    (streamPc = "done" /\ reader # "none") =>
        /\ reader = "released"
        /\ timeoutId = "cleared"
        /\ watchdogRanAt <= settledAt

\* a call that the watchdog cancelled, one watchdog period after it settled
C13_Witness ==
    /\ streamPc = "done"
    /\ cancelled
    /\ reader = "released"
    /\ now = settledAt + WatchdogInterval

\* C14: a call that read the whole body and completed returns the trimmed
\* concatenation of the increments of all data lines of the body, a last
\* line without newline included.
C14_ReturnsAllDataLines ==
    (streamPc = "done" /\ streamRet.kind = "string" /\ received = Len(body)) =>
        streamRet.value = Trim(Increments(SplitLines(body, <<>>), isGoogleApi))

\* C15: the watchdog cancels the reader only when more than 25 seconds have
\* passed since the last chunk arrived (since the call, before the first
\* chunk): a stream whose gaps are all at most 25 seconds is never cancelled,
\* however long it lasts.
C15_CancelOnlyAfterSilence ==
    [][(~cancelled /\ cancelled') => now' - lastArrival > CHUNK_TIMEOUT]_vars

\* a stream that lasted longer than the window, delivered chunks, and
\* completed with its text without being cancelled
C15_Witness ==
    /\ streamPc = "done"
    /\ ~cancelled
    /\ streamRet.kind = "string"
    /\ settledAt > CHUNK_TIMEOUT
    /\ lastArrival > 0


(***************************************************************************)
(* getCombinedWorldbookContent.  In the texts "\n" is the newline; a       *)
(* string of several characters is that run of characters, so the length   *)
(* of a text is the sum of its strings' lengths; one book, "W", is         *)
(* bound to the character.  After the last awaited host call the function  *)
(* runs to its end without interruption; its activation loop is followed   *)
(* pass by pass.                                                           *)
(***************************************************************************)
MaxEntries == 3

DefaultWorldbookCharLimit == 60000

\* String.prototype.length
RECURSIVE Length(_)
Length(text) == IF text = <<>> THEN 0 ELSE Len(Head(text)) + Length(Tail(text))

\* String.prototype.substring(0, end), for end > 0
RECURSIVE Substring(_, _)
Substring(text, end) ==
    IF text = <<>> \/ end <= 0 THEN <<>>
    ELSE IF Len(Head(text)) <= end
         THEN <<Head(text)>> \o Substring(Tail(text), end - Len(Head(text)))
         ELSE <<SubSeq(Head(text), 1, end)>>

\* n times the string s
RECURSIVE Repeat(_, _)
Repeat(s, n) ==
    IF n = 0 THEN ""
    ELSE IF n % 2 = 1 THEN s \o Repeat(s, n - 1)
    ELSE LET half == Repeat(s, n \div 2) IN half \o half

\* String.prototype.toLowerCase
LowerChar(c) == CASE c = "A" -> "a" [] c = "K" -> "k" [] OTHER -> c

RECURSIVE ToLowerCase(_)
ToLowerCase(text) ==
    IF text = <<>> THEN <<>>
    ELSE <<LowerChar(Head(text))>> \o ToLowerCase(Tail(text))

\* Array.prototype.join
RECURSIVE Join(_, _)
Join(parts, sep) ==
    IF parts = <<>> THEN <<>>
    ELSE IF Len(parts) = 1 THEN parts[1]
    ELSE parts[1] \o sep \o Join(Tail(parts), sep)

\* .filter(Boolean) on texts
NonEmptyTexts(parts) == SelectSeq(parts, LAMBDA t : t # <<>>)

\* String.prototype.trim with the newline among the whitespace
RECURSIVE TrimWsStart(_)
TrimWsStart(t) ==
    IF t = <<>> THEN <<>>
    ELSE IF Head(t) \in {" ", "\n"} THEN TrimWsStart(Tail(t)) ELSE t

RECURSIVE TrimWsEnd(_)
TrimWsEnd(t) ==
    IF t = <<>> THEN <<>>
    ELSE IF t[Len(t)] \in {" ", "\n"} THEN TrimWsEnd(SubSeq(t, 1, Len(t) - 1)) ELSE t

TrimWs(t) == TrimWsEnd(TrimWsStart(t))

\* text.replace(regex, '\n') for a pattern that matches the character c
RECURSIVE ReplaceCharByNewline(_, _)
ReplaceCharByNewline(text, c) ==
    IF text = <<>> THEN <<>>
    ELSE (IF Head(text) = c THEN <<"\n">> ELSE <<Head(text)>>)
         \o ReplaceCharByNewline(Tail(text), c)

\* the patterns applied in turn; a blank line gives no regex and is skipped
RECURSIVE ApplyStripPatterns(_, _)
ApplyStripPatterns(text, patterns) ==
    IF patterns = <<>> THEN text
    ELSE ApplyStripPatterns(
             IF Head(patterns) = " " THEN text
             ELSE ReplaceCharByNewline(text, Head(patterns)),
             Tail(patterns))

\* text.replace(/\n{3,}/g, '\n\n'), run being the newlines just copied
RECURSIVE CollapseNewlines(_, _)
CollapseNewlines(text, run) ==
    IF text = <<>> THEN <<>>
    ELSE IF Head(text) = "\n"
         THEN (IF run >= 2 THEN <<>> ELSE <<"\n">>)
              \o CollapseNewlines(Tail(text), run + 1)
         ELSE <<Head(text)>> \o CollapseNewlines(Tail(text), 0)

\* stripConfiguredWorldInfoContent
stripConfiguredWorldInfoContent(rawWorldInfoString) ==
    IF rawWorldInfoString = <<>> THEN <<>>
    ELSE IF ~loreSettings.worldbookStripEnabled THEN rawWorldInfoString
    ELSE TrimWs(CollapseNewlines(
             ApplyStripPatterns(rawWorldInfoString,
                                loreSettings.worldbookStripPatterns), 0))

\* limit = worldbookCharLimit !== undefined ? worldbookCharLimit : 60000;
\* substring(0, limit) when limit > 0 and the text is longer
EffectiveLimit ==
    IF loreSettings.hasCharLimit THEN loreSettings.worldbookCharLimit
    ELSE DefaultWorldbookCharLimit

ApplyCharLimitCutsAtZero(text) ==
    IF Length(text) > EffectiveLimit THEN Substring(text, EffectiveLimit) ELSE text

ApplyCharLimit(text) ==
    IF EffectiveLimit > 0 /\ Length(text) > EffectiveLimit
    THEN Substring(text, EffectiveLimit) ELSE text

\* '\n\n---\n\n'
BlockSeparator == <<"\n", "\n", "-", "-", "-", "\n", "\n">>

\* historyParts.join('\n').toLowerCase()
chatHistory ==
    ToLowerCase(Join(NonEmptyTexts(loreContext.chat)
                         \o (IF loreContext.userMessage # <<>>
                             THEN <<loreContext.userMessage>> ELSE <<>>),
                     <<"\n">>))

Range(seq) == {seq[i] : i \in 1..Len(seq)}

\* getEntryKeywords: key and keys together, lower-cased
getEntryKeywords(entry) ==
    {ToLowerCase(k) : k \in Range(entry.key) \cup Range(entry.keys)}

RECURSIVE ContentsOf(_)
ContentsOf(entries) ==
    IF entries = <<>> THEN <<>>
    ELSE <<Head(entries).content>> \o ContentsOf(Tail(entries))

\* the content of the triggered entries that do not prevent recursion
recursionSourceContent(triggered) ==
    ToLowerCase(Join(ContentsOf(SelectSeq(triggered,
                                          LAMBDA e : ~e.prevent_recursion)),
                     <<"\n">>))

fullSearchText(triggered) ==
    chatHistory \o <<"\n">> \o recursionSourceContent(triggered)

SearchTextAlwaysFull(entry, triggered) == fullSearchText(triggered)

\* entry.exclude_recursion ? chatHistory : fullSearchText
SearchText(entry, triggered) ==
    IF entry.exclude_recursion THEN chatHistory ELSE fullSearchText(triggered)

\* keywords.length > 0 && keywords.some(keyword => text.includes(keyword))
isTriggered(entry, triggered) ==
    \E keyword \in getEntryKeywords(entry) :
        Includes(SearchText(entry, triggered), keyword)

PendingKept(pending, nextPending) == pending

\* pendingGreenLights = nextPendingGreenLights
PendingAfterPass(pending, nextPending) == nextPending

LoopStopsAfterOnePass(hasChangedInThisPass) == FALSE

\* if (!hasChangedInThisPass) break;
LoopContinues(hasChangedInThisPass) == hasChangedInThisPass

\* Set.prototype.add for each entry of a list: an element is held once
RECURSIVE AddAll(_, _)
AddAll(set, entries) ==
    IF entries = <<>> THEN set
    ELSE AddAll(IF Head(entries) \in Range(set) THEN set
                ELSE Append(set, Head(entries)),
                Tail(entries))

RECURSIVE UidsOf(_)
UidsOf(entries) ==
    IF entries = <<>> THEN <<>>
    ELSE <<Head(entries).uid>> \o UidsOf(Tail(entries))

LoreCatchRethrows(source) ==
    /\ loreRet' = Rejected
    /\ lorePc' = "done"
    /\ loreErrors' = loreErrors \cup {source}

\* catch (error) { console.error(...); return ''; }
LoreCatch(source) ==
    /\ loreRet' = Str(<<>>)
    /\ lorePc' = "done"
    /\ loreErrors' = loreErrors \cup {source}

\* return text
LoreReturn(text) ==
    /\ loreRet' = Str(text)
    /\ lorePc' = "done"
    /\ UNCHANGED loreErrors

loreInputs == <<loreSettings, loreContext, worldbook>>

loreLoop == <<userEnabledEntries, triggeredEntries, pendingGreenLights, passes,
              addCount>>

\* the call, up to its first await: the switch, and the manual book list
LoreCall ==
    /\ lorePc = "called"
    /\ IF ~loreSettings.worldbookEnabled THEN LoreReturn(<<>>)
       ELSE IF loreSettings.worldbookSource = "manual"
       THEN IF loreSettings.selectedWorldbooks = <<>> THEN LoreReturn(<<>>)
            ELSE lorePc' = "official" /\ UNCHANGED <<loreRet, loreErrors>>
       ELSE lorePc' = "books" /\ UNCHANGED <<loreRet, loreErrors>>
    /\ UNCHANGED <<loreInputs, loreLoop, rendered, combinedContent>>

\* await safeCharLorebooks({type: 'all'}) settles: it throws, or the
\* character has no book (and, for 'both', none is added), or it has the book
CharLorebooksSettle ==
    /\ lorePc = "books"
    /\ \/ LoreCatch("accessor")
       \/ IF loreSettings.worldbookSource = "both"
             /\ loreSettings.additionalWorldbooks # <<>>
          THEN lorePc' = "official" /\ UNCHANGED <<loreRet, loreErrors>>
          ELSE LoreReturn(<<>>)
       \/ lorePc' = "official" /\ UNCHANGED <<loreRet, loreErrors>>
    /\ UNCHANGED <<loreInputs, loreLoop, rendered, combinedContent>>

\* an entry of a book that was not asked for
ForeignEntry ==
    [uid |-> 0, type |-> "constant", enabled |-> TRUE, key |-> <<>>, keys |-> <<>>,
     content |-> <<"x">>, prevent_recursion |-> FALSE, exclude_recursion |-> FALSE,
     position |-> "before", world |-> "V", malformed |-> FALSE]

RECURSIVE Reverse(_)
Reverse(seq) == IF seq = <<>> THEN <<>> ELSE Append(Reverse(Tail(seq)), Head(seq))

\* what the host's scan may report as activated.allActivatedEntries
HostActivations ==
    LET on == SelectSeq(worldbook, LAMBDA e : e.enabled)
    IN {<<>>, on, Reverse(on), <<ForeignEntry>> \o on}

\* for (const entry of activated.allActivatedEntries): the entries of the
\* allowed books whose trimmed content is not empty
OfficialContents(activated) ==
    SelectSeq(activated, LAMBDA e : e.world = "W" /\ TrimWs(e.content) # <<>>)

RECURSIVE TrimmedContentsOf(_)
TrimmedContentsOf(entries) ==
    IF entries = <<>> THEN <<>>
    ELSE <<TrimWs(Head(entries).content)>> \o TrimmedContentsOf(Tail(entries))

\* tryGetWorldbookContentViaOfficialWI settles: checkWorldInfo is missing or
\* something in the scan throws (null: the legacy scan follows), or the scan
\* reports nothing, or it reports entries whose contents are joined,
\* stripped and cut
OfficialScanSettles ==
    /\ lorePc = "official"
    /\ \/ /\ lorePc' = "entries"
          /\ \E threw \in BOOLEAN :
                loreErrors' = IF threw THEN loreErrors \cup {"official"} ELSE loreErrors
          /\ UNCHANGED <<loreRet, rendered, combinedContent>>
       \/ LoreReturn(<<>>) /\ UNCHANGED <<rendered, combinedContent>>
       \/ \E activated \in HostActivations :
            LET entries == OfficialContents(activated)
                stripped == stripConfiguredWorldInfoContent(
                                Join(TrimmedContentsOf(entries), BlockSeparator))
            IN /\ rendered' = UidsOf(entries)
               /\ combinedContent' = stripped
               /\ LoreReturn(ApplyCharLimit(stripped))
    /\ UNCHANGED <<loreInputs, loreLoop>>

\* await safeLorebookEntries(bookName) settles: it throws, or the entries are
\* filtered and the activation loop is set up
LorebookEntriesSettle ==
    /\ lorePc = "entries"
    /\ \/ LoreCatch("accessor") /\ UNCHANGED loreLoop
       \/ LET enabled ==
                  SelectSeq(worldbook,
                      LAMBDA e : e.enabled
                                 /\ e.uid \notin loreSettings.disabledWorldbookEntries)
          IN IF enabled = <<>>
             THEN LoreReturn(<<>>) /\ UNCHANGED loreLoop
             ELSE /\ userEnabledEntries' = enabled
                  /\ triggeredEntries' =
                         SelectSeq(enabled, LAMBDA e : e.type = "constant")
                  /\ pendingGreenLights' =
                         SelectSeq(enabled, LAMBDA e : e.type # "constant")
                  /\ addCount' = [u \in Range(UidsOf(enabled)) |->
                                     IF \E e \in Range(enabled) :
                                            e.uid = u /\ e.type = "constant"
                                     THEN 1 ELSE 0]
                  /\ lorePc' = "pass"
                  /\ UNCHANGED <<passes, loreRet, loreErrors>>
    /\ UNCHANGED <<loreInputs, rendered, combinedContent>>

\* one iteration of while (true): a keyword that is no string makes
\* getEntryKeywords throw
ActivationPass ==
    /\ lorePc = "pass"
    /\ passes' = passes + 1
    /\ IF \E e \in Range(pendingGreenLights) : e.malformed
       THEN /\ LoreCatch("legacy")
            /\ UNCHANGED <<userEnabledEntries, triggeredEntries, pendingGreenLights,
                           addCount>>
       ELSE LET hit == SelectSeq(pendingGreenLights,
                                 LAMBDA e : isTriggered(e, triggeredEntries))
                nextPendingGreenLights ==
                    SelectSeq(pendingGreenLights,
                              LAMBDA e : ~isTriggered(e, triggeredEntries))
            IN /\ triggeredEntries' = AddAll(triggeredEntries, hit)
               /\ addCount' = [u \in DOMAIN addCount |->
                                  IF u \in Range(UidsOf(hit))
                                  THEN addCount[u] + 1 ELSE addCount[u]]
               /\ IF LoopContinues(hit # <<>>)
                  THEN /\ pendingGreenLights' =
                              PendingAfterPass(pendingGreenLights,
                                               nextPendingGreenLights)
                       /\ lorePc' = "pass"
                  ELSE /\ pendingGreenLights' = pendingGreenLights
                       /\ lorePc' = "render"
               /\ UNCHANGED <<userEnabledEntries, loreRet, loreErrors>>
    /\ UNCHANGED <<loreInputs, rendered, combinedContent>>

\* the contents of the triggered entries, in the order of the Set, joined,
\* stripped and cut
LegacyRender ==
    /\ lorePc = "render"
    /\ LET entries == SelectSeq(triggeredEntries, LAMBDA e : e.content # <<>>)
           combined == stripConfiguredWorldInfoContent(
                           Join(ContentsOf(entries), BlockSeparator))
       IN /\ rendered' = UidsOf(entries)
          /\ combinedContent' = IF entries = <<>> THEN <<>> ELSE combined
          /\ LoreReturn(IF entries = <<>> THEN <<>> ELSE ApplyCharLimit(combined))
    /\ UNCHANGED <<loreInputs, loreLoop>>

LoreEntry(uid, type, key, content, position) ==
    [uid |-> uid, type |-> type, enabled |-> TRUE, key |-> key, keys |-> <<>>,
     content |-> content, prevent_recursion |-> FALSE, exclude_recursion |-> FALSE,
     position |-> position, world |-> "W", malformed |-> FALSE]

\* as many characters as the default limit
LongRun == Repeat("x", DefaultWorldbookCharLimit)

\* the entries a book may hold; the content of entry 11 is one character
\* longer than the default limit
EntryTemplates ==
    { LoreEntry(1, "constant", <<>>, <<"A">>, "after"),
      [LoreEntry(2, "constant", <<>>, <<"b">>, "before")
          EXCEPT !.prevent_recursion = TRUE],
      [LoreEntry(3, "selective", <<>>, <<"c">>, "atDepth")
          EXCEPT !.keys = << <<"K">> >>],
      LoreEntry(4, "selective", << <<"a">> >>, <<"d">>, "before"),
      LoreEntry(5, "selective", << <<"b">> >>, <<>>, "after"),
      [LoreEntry(6, "selective", << <<"c">> >>, <<"f">>, "before")
          EXCEPT !.exclude_recursion = TRUE],
      LoreEntry(7, "selective", << <<"d">> >>, <<"g">>, "atDepth"),
      LoreEntry(8, "selective", <<>>, <<"h">>, "after"),
      [LoreEntry(9, "selective", <<>>, <<"i">>, "after") EXCEPT !.malformed = TRUE],
      [LoreEntry(10, "constant", <<>>, <<"j">>, "before") EXCEPT !.enabled = FALSE],
      LoreEntry(11, "constant", <<>>, <<"A", LongRun>>, "atDepth") }

\* the books: up to MaxEntries different entries in any stored order
Worldbooks ==
    { w \in UNION {[1..n -> EntryTemplates] : n \in 0..MaxEntries} :
        \A i, j \in 1..Len(w) : i # j => w[i] # w[j] }

LoreSettingsChoices ==
    { [worldbookEnabled |-> TRUE, worldbookSource |-> "character",
       selectedWorldbooks |-> <<>>, additionalWorldbooks |-> <<>>,
       disabledWorldbookEntries |-> {}, worldbookStripEnabled |-> FALSE,
       worldbookStripPatterns |-> <<>>, hasCharLimit |-> FALSE,
       worldbookCharLimit |-> 0],
      [worldbookEnabled |-> TRUE, worldbookSource |-> "manual",
       selectedWorldbooks |-> <<"W">>, additionalWorldbooks |-> <<>>,
       disabledWorldbookEntries |-> {1}, worldbookStripEnabled |-> TRUE,
       worldbookStripPatterns |-> <<" ", "d">>, hasCharLimit |-> TRUE,
       worldbookCharLimit |-> 0],
      [worldbookEnabled |-> TRUE, worldbookSource |-> "both",
       selectedWorldbooks |-> <<>>, additionalWorldbooks |-> <<"W">>,
       disabledWorldbookEntries |-> {}, worldbookStripEnabled |-> FALSE,
       worldbookStripPatterns |-> <<>>, hasCharLimit |-> TRUE,
       worldbookCharLimit |-> 7] }

LoreContexts ==
    { [chat |-> <<>>, userMessage |-> <<>>],
      [chat |-> << <<"K">>, <<>> >>, userMessage |-> <<"b">>],
      [chat |-> <<>>, userMessage |-> <<"k">>] }

\* getCombinedWorldbookContent has been called
InitLore ==
    /\ \/ loreSettings \in LoreSettingsChoices
       \/ loreSettings \in
            { [st EXCEPT !.worldbookEnabled = FALSE] : st \in LoreSettingsChoices }
            /\ loreSettings.worldbookSource = "character"
       \/ loreSettings \in
            { [st EXCEPT !.selectedWorldbooks = <<>>] : st \in LoreSettingsChoices }
            /\ loreSettings.worldbookSource = "manual"
    /\ loreContext \in LoreContexts
    /\ worldbook \in Worldbooks
    /\ userEnabledEntries = <<>>
    /\ triggeredEntries = <<>>
    /\ pendingGreenLights = <<>>
    /\ passes = 0
    /\ addCount = <<>>
    /\ lorePc = "called"
    /\ loreRet = Pending
    /\ loreErrors = {}
    /\ rendered = <<>>
    /\ combinedContent = <<>>
    /\ CallUnused
    /\ dispatches = <<>>
    /\ StreamUnused
    /\ RestUnused

NextLore ==
    \/ LoreCall /\ UNCHANGED <<callVars, dispatches, streamVars, restVars>>
    \/ CharLorebooksSettle /\ UNCHANGED <<callVars, dispatches, streamVars, restVars>>
    \/ OfficialScanSettles /\ UNCHANGED <<callVars, dispatches, streamVars, restVars>>
    \/ LorebookEntriesSettle /\ UNCHANGED <<callVars, dispatches, streamVars, restVars>>
    \/ ActivationPass /\ UNCHANGED <<callVars, dispatches, streamVars, restVars>>
    \/ LegacyRender /\ UNCHANGED <<callVars, dispatches, streamVars, restVars>>

SpecLore == InitLore /\ [][NextLore]_vars


\* the conditional entries among the enabled ones
NumConditional ==
    Cardinality({i \in 1..Len(userEnabledEntries) :
                    userEnabledEntries[i].type # "constant"})

NeverAddedTwice == \A u \in DOMAIN addCount : addCount[u] <= 1

\* C16 as stated: the activation loop executes at most |entries| passes and
\* never adds an entry to the activated set more than once.
C16_AtMostEntriesPasses ==
    /\ passes <= Len(userEnabledEntries)
    /\ NeverAddedTwice

\* C16 amended: the loop terminates after at most c + 1 passes, c the number
\* of conditional entries: every pass but the last moves at least one pending
\* entry to the activated set, the last one moves none; no entry is added
\* more than once.
C16_PassesBounded ==
    /\ passes <= NumConditional + 1
    /\ (lorePc = "pass" => passes + Len(pendingGreenLights) <= NumConditional)
    /\ NeverAddedTwice

\* a chain of two conditional entries followed in three passes
C16_Witness ==
    /\ lorePc = "render"
    /\ NumConditional = 2
    /\ passes = 3
    /\ pendingGreenLights = <<>>

EntryByUid(u) == CHOOSE e \in EntryTemplates : e.uid = u

PositionRank(position) ==
    CASE position = "before" -> 1
      [] position = "atDepth" -> 2
      [] position = "after" -> 3

\* C17: in the rendered block the content of every Before entry precedes
\* that of every AtDepth entry, which precedes that of every After entry.
C17_PositionOrder ==
    \A i, j \in 1..Len(rendered) :
        i < j => PositionRank(EntryByUid(rendered[i]).position)
                     <= PositionRank(EntryByUid(rendered[j]).position)

\* a keyword of the entry occurs in the text
KeywordIn(entry, text) ==
    \E keyword \in getEntryKeywords(entry) : Includes(ToLowerCase(text), keyword)

\* a keyword of the entry occurs in the content of an active entry that does
\* not prevent recursion
KeywordInActive(entry, active) ==
    \E a \in Range(active) : ~a.prevent_recursion /\ KeywordIn(entry, a.content)

\* C18: in a pass of the loop, a pending exclude_recursion entry is activated
\* only when a keyword of it occurs in the chat text; any other pending entry
\* is activated when a keyword of it occurs in the chat text or in the content
\* of an already active entry whose prevent_recursion is false; an entry
\* without keywords is not activated.
C18_ActivationRule ==
    [][(lorePc = "pass" /\ lorePc' # "done") =>
          \A e \in Range(pendingGreenLights) :
              /\ (e.exclude_recursion /\ e \in Range(triggeredEntries'))
                     => KeywordIn(e, chatHistory)
              /\ (~e.exclude_recursion
                    /\ (KeywordIn(e, chatHistory)
                          \/ KeywordInActive(e, triggeredEntries)))
                     => e \in Range(triggeredEntries')
              /\ getEntryKeywords(e) = {}
                     => e \notin Range(triggeredEntries')]_vars

\* the loop has stopped with an exclude_recursion entry left pending although
\* the content of an entry activated by the chat holds its keyword
C18_Witness ==
    /\ lorePc = "render"
    /\ \E e \in Range(pendingGreenLights) :
          /\ e.exclude_recursion
          /\ KeywordInActive(e, triggeredEntries)
    /\ \E a \in Range(triggeredEntries) : a.type # "constant"

\* C19: when the loop stops, every constant entry is in the activated set and
\* no enabled entry outside it has a keyword that occurs in the chat text or,
\* unless it is exclude_recursion, in the content of an activated entry that
\* does not prevent recursion.
C19_ActivatedSetClosed ==
    lorePc = "render" =>
        \A e \in Range(userEnabledEntries) :
            /\ e.type = "constant" => e \in Range(triggeredEntries)
            /\ e \notin Range(triggeredEntries) =>
                  /\ ~KeywordIn(e, chatHistory)
                  /\ e.exclude_recursion \/ ~KeywordInActive(e, triggeredEntries)

\* the loop has stopped after following a chain: a conditional entry was
\* activated by the content of a conditional entry
C19_Witness ==
    /\ lorePc = "render"
    /\ \E e, a \in Range(triggeredEntries) :
          /\ e.type # "constant" /\ a.type # "constant"
          /\ ~KeywordIn(e, chatHistory)
          /\ KeywordIn(e, a.content)

\* C20 as stated: any internal error (a host accessor, the official scan or
\* the legacy scan throwing) makes the call resolve to the empty string.
C20_ErrorGivesEmptyString ==
    (lorePc = "done" /\ loreErrors # {}) => loreRet = Str(<<>>)

\* C20 amended: the call never rejects; an error of a host accessor or of the
\* legacy scan makes it resolve to the empty string; an error of the official
\* scan is caught there and the result of the legacy scan is returned.
C20_NeverRejects ==
    lorePc = "done" =>
        /\ loreRet.kind = "string"
        /\ (loreErrors \cap {"accessor", "legacy"} # {} => loreRet = Str(<<>>))

\* the official scan threw, then the legacy scan threw: the empty string
C20_Witness ==
    /\ lorePc = "done"
    /\ loreErrors = {"official", "legacy"}
    /\ loreRet = Str(<<>>)

\* C21 (as stated): when worldbookCharLimit is 0 or unset the stripped block
\* is returned in full whatever its length; with a positive limit the
\* returned block never has more characters than the limit.
C21_NoLimitWhenZeroOrUnset ==
    lorePc = "done" /\ loreRet.kind = "string" =>
        /\ (~loreSettings.hasCharLimit \/ loreSettings.worldbookCharLimit = 0)
              => loreRet.value = combinedContent
        /\ (loreSettings.hasCharLimit /\ loreSettings.worldbookCharLimit > 0)
              => Length(loreRet.value) <= loreSettings.worldbookCharLimit

\* C21 (amended): a worldbookCharLimit of 0 disables the truncation and the
\* stripped block is returned in full; an unset worldbookCharLimit stands for
\* the default limit of 60000 characters; with a positive limit, set or
\* default, the returned block is the stripped block when that is not
\* longer than the limit, and otherwise has exactly as many characters as
\* the limit.
C21_LimitZeroDisablesUnsetDefaults ==
    lorePc = "done" /\ loreRet.kind = "string" =>
        LET limit == IF loreSettings.hasCharLimit
                     THEN loreSettings.worldbookCharLimit
                     ELSE DefaultWorldbookCharLimit
        IN IF limit = 0 \/ Length(combinedContent) <= limit
           THEN loreRet.value = combinedContent
           ELSE Length(loreRet.value) = limit

\* an unset limit, a block longer than the default limit, cut to the default
C21_Witness ==
    /\ lorePc = "done"
    /\ ~loreSettings.hasCharLimit
    /\ Length(combinedContent) > DefaultWorldbookCharLimit
    /\ Length(loreRet.value) = DefaultWorldbookCharLimit
    /\ rendered # <<>>


(***************************************************************************)
(* The prompt assembly of makeApiCall on its own: one call of makeApiCall  *)
(* up to the check of the assembled list, over templates, jailbreak        *)
(* sequences, modes and histories.                                         *)
(***************************************************************************)
MaxJailbreak == 3

\* apiSettings.mainPrompt
MainTemplates ==
    { <<>>, <<"m">>, <<" ">>, <<"m", "$", "7">>, <<"\\", "$", "7">>, <<"$", "1">> }

\* apiSettings.systemPrompt
SystemTemplates == { <<>>, <<"s">>, <<"s", " ", "$", "7">> }

\* the entries of globalSettings.jailbreakPrompts
JailbreakEntries ==
    { Entry(<<"x">>, "user", TRUE),
      Entry(<<"y">>, "", TRUE),
      Entry(<<"m">>, "system", TRUE),
      Entry(CORE_PROMPTS, "system", TRUE),
      Entry(CORE_PROMPTS, "system", FALSE),
      Entry(<<"z">>, "assistant", FALSE),
      Entry(<<" ", "$", "1">>, "user", TRUE),
      Entry(<<>>, "user", TRUE) }

JailbreakSequences == UNION {[1..n -> JailbreakEntries] : n \in 0..MaxJailbreak}

\* makeApiCall has been called
InitAssembly ==
    /\ \E main \in MainTemplates, sys \in SystemTemplates :
         apiSettings = [apiUrl |-> <<"u">>, apiMode |-> "frontend",
                        useStreaming |-> TRUE, requiredKeywords |-> <<>>,
                        maxRetries |-> 0, tavernProfile |-> "",
                        mainPrompt |-> main, systemPrompt |-> sys,
                        worldbookEnabled |-> FALSE]
    /\ \E mode \in {"classic", "jailbreak"}, jb \in JailbreakSequences :
         globalSettings = [promptMode |-> mode, jailbreakPrompts |-> jb]
    /\ \E h \in {NoHistory, SomeHistory} :
         callArgs = [userMessage |-> h.userMessage,
                     contextMessages |-> h.contextMessages,
                     worldbookContent |-> <<"x">>, tableDataContent |-> <<>>]
    /\ hostContext = [persona_description |-> <<"x", " ">>, description |-> <<>>,
                      profiles |-> {}]
    /\ activeProfile = "O"
    /\ pc = "idle"
    /\ attempt = 0
    /\ messages = <<>>
    /\ originalProfile = ""
    /\ responsePromise = "none"
    /\ ret = Pending
    /\ toasts = <<>>
    /\ attemptsMade = 0
    /\ backoffs = 0
    /\ requests = 0
    /\ outcomes = <<>>
    /\ steps = <<>>
    /\ profileSwitches = 0
    /\ profileBefore = ""
    /\ dispatches = <<>>
    /\ StreamUnused
    /\ LoreUnused
    /\ RestUnused

\* makeApiCall from its first line to the check of the assembled list: an
\* empty list is reported and the call returns null
AssemblePrompt ==
    /\ pc = "idle"
    /\ messages' = AssembleMessages
    /\ attemptsMade' = attemptsMade + 1
    /\ IF MessagesEmpty(AssembleMessages)
       THEN pc' = "empty" /\ toasts' = Append(toasts, "EmptyPrompt")
       ELSE pc' = "assembled" /\ toasts' = toasts
    /\ UNCHANGED <<apiSettings, globalSettings, callArgs, hostContext,
                   activeProfile, attempt, originalProfile, responsePromise, ret,
                   backoffs, requests, outcomes, steps, profileSwitches,
                   profileBefore>>

NextAssembly == AssemblePrompt /\ UNCHANGED notCallVars

SpecAssembly == InitAssembly /\ [][NextAssembly]_vars

Assembled == pc \in {"assembled", "empty"}

\* the enabled entries of the jailbreak sequence, in sequence order
EnabledEntries == SelectSeq(globalSettings.jailbreakPrompts, LAMBDA e : e.enabled)

IsSentinel(e) == e.content = CORE_PROMPTS

Blank(text) == \A i \in 1..Len(text) : text[i] = " "

\* the message an entry stands for
MessageOf(e) ==
    [role |-> IF e.role = "" THEN "system" ELSE e.role,
     content |-> replacePlaceholders(e.content), from |-> FromJailbreak(e)]

\* what one enabled entry contributes in classic mode
Segment(e) ==
    IF IsSentinel(e) THEN corePromptMessages
    ELSE IF Blank(replacePlaceholders(e.content)) THEN <<>>
    ELSE <<MessageOf(e)>>

\* the number of messages the first k enabled entries contribute
RECURSIVE Offset(_)
Offset(k) == IF k = 0 THEN 0 ELSE Offset(k - 1) + Len(Segment(EnabledEntries[k]))

\* C22: in classic mode the assembled list is, for each enabled jailbreak
\* entry in sequence order, the entry's message, or the core prompts where
\* the entry is the sentinel; with no enabled sentinel the core prompts follow
\* all jailbreak entries; with no enabled entry the list is the core prompts.
C22_ClassicAssembly ==
    (Assembled /\ globalSettings.promptMode = "classic") =>
        LET n == Len(EnabledEntries)
            appended == IF \E k \in 1..n : IsSentinel(EnabledEntries[k])
                        THEN <<>> ELSE corePromptMessages
        IN /\ Len(messages) = Offset(n) + Len(appended)
           /\ \A k \in 1..n : \A j \in 1..Len(Segment(EnabledEntries[k])) :
                 messages[Offset(k - 1) + j] = Segment(EnabledEntries[k])[j]
           /\ \A j \in 1..Len(appended) : messages[Offset(n) + j] = appended[j]
           /\ (n = 0 => messages = corePromptMessages)

\* core prompts between two jailbreak messages, at the sentinel
C22_Witness ==
    /\ pc = "assembled"
    /\ globalSettings.promptMode = "classic"
    /\ Len(messages) >= 4
    /\ messages[1].from.kind = "jailbreak"
    /\ messages[2].from.kind = "main"
    /\ messages[Len(messages)].from.kind = "jailbreak"
    /\ messages[1].from.entry # messages[Len(messages)].from.entry

\* C23: in jailbreak-only mode the assembled list holds no core-prompt
\* message and no sentinel entry: it is the enabled jailbreak entries that
\* are not the sentinel and not blank after substitution, in sequence order.
C23_JailbreakOnly ==
    (Assembled /\ globalSettings.promptMode = "jailbreak") =>
        LET kept == SelectSeq(EnabledEntries,
                      LAMBDA e : ~IsSentinel(e) /\ ~Blank(replacePlaceholders(e.content)))
        IN /\ Len(messages) = Len(kept)
           /\ \A i \in 1..Len(kept) : messages[i] = MessageOf(kept[i])
           /\ \A i \in 1..Len(messages) :
                 /\ messages[i].from.kind = "jailbreak"
                 /\ messages[i].content # CORE_PROMPTS

\* jailbreak-only, with templates that give core prompts and an enabled
\* sentinel between two entries
C23_Witness ==
    /\ pc = "assembled"
    /\ globalSettings.promptMode = "jailbreak"
    /\ corePromptMessages # <<>>
    /\ Len(EnabledEntries) = 3
    /\ IsSentinel(EnabledEntries[2])
    /\ Len(messages) = 2

\* C24: in every mode no assembled message has empty or whitespace-only
\* content, and no message comes from a jailbreak entry that is disabled.
C24_NoBlankNoDisabled ==
    Assembled =>
        \A i \in 1..Len(messages) :
            /\ ~Blank(messages[i].content)
            /\ messages[i].from.kind = "jailbreak" => messages[i].from.entry.enabled

\* a list was assembled from a sequence with a disabled entry and an entry
\* that is blank after substitution
C24_Witness ==
    /\ pc = "assembled"
    /\ \E i \in 1..Len(globalSettings.jailbreakPrompts) :
          ~globalSettings.jailbreakPrompts[i].enabled
    /\ \E i \in 1..Len(EnabledEntries) :
          /\ EnabledEntries[i].content # <<>>
          /\ Blank(replacePlaceholders(EnabledEntries[i].content))

\* the text has a "$7" that no backslash precedes
UnescapedHistoryToken(text) ==
    \E i \in 1..(Len(text) - 1) :
        text[i] = "$" /\ text[i + 1] = "7" /\ (i > 1 => text[i - 1] # "\\")

HistoryMessages(msgs) ==
    SelectSeq(msgs, LAMBDA m : m.from.kind = "history")

\* C25: the formatted history is an extra core message exactly when it is
\* not empty and neither template has an unescaped $7.
C25_HistoryFallback ==
    Assembled =>
        /\ HistoryMessages(corePromptMessages) # <<>>
             <=> /\ fullHistory # <<>>
                 /\ ~UnescapedHistoryToken(apiSettings.mainPrompt)
                 /\ ~UnescapedHistoryToken(apiSettings.systemPrompt)
        /\ Len(HistoryMessages(corePromptMessages)) <= 1
        /\ \A i \in 1..Len(corePromptMessages) :
              corePromptMessages[i].from.kind = "history"
                  => corePromptMessages[i].content = formattedHistoryInjection

\* a history, a template with an unescaped $7: the history is in the
\* template's message and there is no extra message
C25_Witness ==
    /\ pc = "assembled"
    /\ globalSettings.promptMode = "classic"
    /\ fullHistory # <<>>
    /\ UnescapedHistoryToken(apiSettings.systemPrompt)
    /\ ~UnescapedHistoryToken(apiSettings.mainPrompt)
    /\ apiSettings.mainPrompt # <<>>
    /\ HistoryMessages(messages) = <<>>
    /\ \E i \in 1..Len(messages) :
          messages[i].from.kind = "system" /\ Has(messages[i].content, "<h>")

CoreRank(kind) ==
    CASE kind = "main" -> 1 [] kind = "history" -> 2 [] kind = "system" -> 3

\* C26 (as stated): an injected history message is a System message and the
\* first of the core prompts.
C26_HistoryLeads ==
    Assembled =>
        \A i \in 1..Len(corePromptMessages) :
            corePromptMessages[i].from.kind = "history"
                => corePromptMessages[i].role = "system" /\ i = 1

\* C26 (amended): an injected history message is a System message; in the
\* core prompts it follows the main-template message and precedes the
\* system-template message.
C26_HistoryBetween ==
    Assembled =>
        /\ \A i \in 1..Len(corePromptMessages) :
              corePromptMessages[i].from.kind = "history"
                  => corePromptMessages[i].role = "system"
        /\ \A i, j \in 1..Len(corePromptMessages) :
              i < j => CoreRank(corePromptMessages[i].from.kind)
                           < CoreRank(corePromptMessages[j].from.kind)

\* main-template message, history message, system-template message
C26_Witness ==
    /\ pc = "assembled"
    /\ Len(messages) = 3
    /\ messages[1].from.kind = "main"
    /\ messages[2].from.kind = "history"
    /\ messages[3].from.kind = "system"


(***************************************************************************)
(* replacePlaceholders on its own: one call, over templates written with   *)
(* the characters of the tokens and over the values the tokens stand for.  *)
(***************************************************************************)
MaxTemplateLen == 3

TemplateChars == {"$", "\\", "1", "5", "7", "U", "C", "a"}

\* the texts replacePlaceholders is called with
Templates == UNION {[1..n -> TemplateChars] : n \in 0..MaxTemplateLen}

\* apiSettings.worldbookEnabled and worldbookContent
WorldbookValues ==
    { [enabled |-> FALSE, content |-> <<"w">>],
      [enabled |-> TRUE, content |-> <<>>],
      [enabled |-> TRUE, content |-> <<"w">>],
      [enabled |-> TRUE, content |-> <<"$", "U">>] }

\* context.powerUserSettings.persona_description
PersonaValues ==
    { <<>>, <<"p", " ">>, <<"$", "$">>, <<"$", "&">>, <<"p", "\\">> }

\* makeApiCall has built its values and calls replacePlaceholders(template)
InitResolve ==
    /\ template \in Templates
    /\ resolved = Pending
    /\ \E wb \in WorldbookValues, table \in {<<>>, <<"t">>},
          h \in {NoHistory, SomeHistory}, persona \in PersonaValues,
          description \in {<<>>, <<"c">>} :
         /\ apiSettings = [apiUrl |-> <<"u">>, apiMode |-> "frontend",
                           useStreaming |-> TRUE, requiredKeywords |-> <<>>,
                           maxRetries |-> 0, tavernProfile |-> "",
                           mainPrompt |-> <<"x">>, systemPrompt |-> <<>>,
                           worldbookEnabled |-> wb.enabled]
         /\ callArgs = [userMessage |-> h.userMessage,
                        contextMessages |-> h.contextMessages,
                        worldbookContent |-> wb.content,
                        tableDataContent |-> table]
         /\ hostContext = [persona_description |-> persona,
                           description |-> description, profiles |-> {}]
    /\ globalSettings = [promptMode |-> "classic", jailbreakPrompts |-> <<>>]
    /\ activeProfile = "O"
    /\ pc = "idle"
    /\ attempt = 0
    /\ messages = <<>>
    /\ originalProfile = ""
    /\ responsePromise = "none"
    /\ ret = Pending
    /\ toasts = <<>>
    /\ attemptsMade = 0
    /\ backoffs = 0
    /\ requests = 0
    /\ outcomes = <<>>
    /\ steps = <<>>
    /\ profileSwitches = 0
    /\ profileBefore = ""
    /\ dispatches = <<>>
    /\ StreamUnused
    /\ LoreUnused
    /\ RaceUnused
    /\ NormalizeUnused
    /\ HelperUnused

\* replacePlaceholders(template) returns
ResolveTemplate ==
    /\ resolved = Pending
    /\ resolved' = Str(replacePlaceholders(template))
    /\ UNCHANGED template

NextResolve ==
    ResolveTemplate
    /\ UNCHANGED <<callVars, dispatches, streamVars, loreVars, raceVars,
                   normalizeVars, helperVars>>

SpecResolve == InitResolve /\ [][NextResolve]_vars

\* the value a token stands for
TokenValue(c) ==
    CASE c = "1" -> worldbookReplacement
      [] c = "5" -> tableDataReplacement
      [] c = "7" -> formattedHistoryInjection
      [] c = "U" -> getPromptPlaceholderReplacements(hostContext).U
      [] c = "C" -> getPromptPlaceholderReplacements(hostContext).C

\* a recognized token begins at position i of the text, no backslash before it
UnescapedTokenAt(text, i) ==
    /\ i < Len(text)
    /\ text[i] = "$"
    /\ text[i + 1] \in {"1", "5", "7", "U", "C"}
    /\ (i > 1 => text[i - 1] # "\\")

\* the text from position i on, every unescaped token replaced by its value
\* and everything else kept
RECURSIVE SubstituteVerbatim(_, _)
SubstituteVerbatim(text, i) ==
    IF i > Len(text) THEN <<>>
    ELSE IF UnescapedTokenAt(text, i)
         THEN TokenValue(text[i + 1]) \o SubstituteVerbatim(text, i + 2)
         ELSE <<text[i]>> \o SubstituteVerbatim(text, i + 1)

\* C27: placeholder resolution replaces every unescaped occurrence of a
\* recognized token ($1, $5, $7, $U, $C) by its value, the empty text when
\* the value is absent or the knowledge base is disabled, and keeps every
\* token that a backslash precedes.
C27_SubstitutesEveryToken ==
    resolved.kind = "string" => resolved.value = SubstituteVerbatim(template, 1)


(***************************************************************************)
(* withTimeout on its own: one race of a request promise against the timer *)
(* promise, from each place that builds one.  The request is what the call *)
(* site hands over: the $.ajax or sendRequest promise, or the fetchPromise *)
(* of fetchJsonWithTimeout.                                                *)
(***************************************************************************)
\* timeoutMs and errorMessage at the calls of withTimeout
RaceSites ==
    { [timeoutMs |-> 60000, errorMessage |-> "fetchJson60"],
      [timeoutMs |-> 60000, errorMessage |-> "backend60"],
      [timeoutMs |-> 60000, errorMessage |-> "tavern60"],
      [timeoutMs |-> 60000, errorMessage |-> "perfect60"],
      [timeoutMs |-> 30000, errorMessage |-> "tavernTest30"],
      [timeoutMs |-> 30000, errorMessage |-> "backendTest30"],
      [timeoutMs |-> 30000, errorMessage |-> "fetchJsonTest30"] }

\* the instants that are told apart, in milliseconds
RaceTimes == {0, 10000, 30000, 40000, 60000, 70000}

\* what a request promise may settle with: a parsed body, a text body, or an
\* error (fetchJsonWithTimeout: 'HTTP error! ...')
RequestOutcomes ==
    { [kind |-> "string", value |-> <<"{A}">>],
      [kind |-> "string", value |-> <<"x">>],
      Threw("HttpError") }

\* withTimeout(promise, timeoutMs, errorMessage) has been called: the timer is
\* set and both promises are pending
InitRace ==
    /\ raceSite \in RaceSites
    /\ raceNow = 0
    /\ requestState = "pending"
    /\ timerState = "armed"
    /\ raceRet = Pending
    /\ winner = "none"
    /\ CallUnused
    /\ dispatches = <<>>
    /\ StreamUnused
    /\ LoreUnused
    /\ ResolveUnused
    /\ NormalizeUnused
    /\ HelperUnused

\* time passes; a timer that is due runs before time passes further, and
\* nothing is followed once both promises have settled
RaceTimePasses ==
    /\ timerState = "armed" => raceNow < raceSite.timeoutMs
    /\ ~(requestState # "pending" /\ timerState = "fired")
    /\ \E t \in RaceTimes :
         /\ t > raceNow
         /\ \A u \in RaceTimes : u > raceNow => t <= u
         /\ raceNow' = t
    /\ UNCHANGED <<raceSite, requestState, timerState, raceRet, winner>>

\* setTimeout(() => reject(new Error(errorMessage)), timeoutMs): the callback
\* runs; reject settles the race unless it has settled.  Nothing is done to
\* the request.
TimerFires ==
    /\ timerState = "armed"
    /\ raceNow >= raceSite.timeoutMs
    /\ timerState' = "fired"
    /\ IF raceRet = Pending
       THEN raceRet' = Threw(raceSite.errorMessage) /\ winner' = "timer"
       ELSE UNCHANGED <<raceRet, winner>>
    /\ UNCHANGED <<raceSite, raceNow, requestState>>

\* the request promise settles; it settles the race unless that has settled.
\* Nothing is done to the timer.
RequestSettles ==
    /\ requestState = "pending"
    /\ \E outcome \in RequestOutcomes :
         /\ requestState' = IF outcome.kind = "rejected" THEN "rejected" ELSE "fulfilled"
         /\ IF raceRet = Pending
            THEN raceRet' = outcome /\ winner' = "request"
            ELSE UNCHANGED <<raceRet, winner>>
    /\ UNCHANGED <<raceSite, raceNow, timerState>>

NextRace ==
    \/ RaceTimePasses
       /\ UNCHANGED <<callVars, dispatches, streamVars, loreVars, resolveVars,
                      normalizeVars, helperVars>>
    \/ TimerFires
       /\ UNCHANGED <<callVars, dispatches, streamVars, loreVars, resolveVars,
                      normalizeVars, helperVars>>
    \/ RequestSettles
       /\ UNCHANGED <<callVars, dispatches, streamVars, loreVars, resolveVars,
                      normalizeVars, helperVars>>

SpecRace == InitRace /\ [][NextRace]_vars

\* C28: once a race built by withTimeout has settled, the loser's resource
\* is cleaned up: when the request settled first the timer is cleared and
\* does not fire, and when the timer fired first the request is cancelled.
C28_LoserCleanedUp ==
    /\ winner = "request" => timerState = "cleared"
    /\ winner = "timer" => requestState = "cancelled"


(***************************************************************************)
(* normalizeApiResponse on its own.  A JavaScript value is a record of its *)
(* type with the characters of a string, the items of an array and the     *)
(* own properties of an object.                                            *)
(***************************************************************************)
JsValue(type, str, items, props) ==
    [type |-> type, str |-> str, items |-> items, props |-> props]

Undefined == JsValue("undefined", <<>>, <<>>, <<>>)

JsNull == JsValue("null", <<>>, <<>>, <<>>)

JsString(str) == JsValue("string", str, <<>>, <<>>)

\* a number that is not zero
JsNumber == JsValue("number", <<"5">>, <<>>, <<>>)

JsArray(items) == JsValue("array", <<>>, items, <<>>)

\* an object literal: the properties of fields that are given a value
JsObject(fields) ==
    JsValue("object", <<>>, <<>>,
            [n \in {m \in DOMAIN fields : fields[m] # Undefined} |-> fields[n]])

\* value.name
Get(value, name) ==
    IF value.type = "object" /\ name \in DOMAIN value.props
    THEN value.props[name] ELSE Undefined

\* value[0]
First0(value) ==
    IF value.type = "array" /\ value.items # <<>> THEN value.items[1]
    ELSE IF value.type = "string" /\ value.str # <<>> THEN JsString(<<value.str[1]>>)
    ELSE Undefined

Nullish(value) == value.type \in {"undefined", "null"}

\* the value counts as true in a condition
Truthy(value) == ~Nullish(value) /\ ~(value.type = "string" /\ value.str = <<>>)

Returned(value) == [kind |-> "returned", value |-> value]

\* TypeError: ... is not a function
TypeError == [kind |-> "threw", value |-> JsString(<<"TypeError">>)]

\* value.trim()
TrimCall(value) ==
    IF value.type = "string" THEN Returned(JsString(Trim(value.str))) ELSE TypeError

\* return { name: value }, or the error that computing the value threw
ReturnObject(name, computed) ==
    IF computed.kind = "threw" THEN computed
    ELSE Returned(JsValue("object", <<>>, <<>>, [n \in {name} |-> computed.value]))

\* JSON.parse on the response texts that are told apart
JsonTexts ==
    { [text |-> <<"x">>, valid |-> FALSE, value |-> Undefined],
      [text |-> <<"null">>, valid |-> TRUE, value |-> JsNull],
      [text |-> <<"q", "A", "q">>, valid |-> TRUE, value |-> JsString(<<"A">>)],
      [text |-> <<"{content:", "q", " ", "A", "q", "}">>, valid |-> TRUE,
       value |-> JsObject([n \in {"content"} |-> JsString(<<" ", "A">>)])],
      [text |-> <<"{error:{message:", "q", "m", "q", "}}">>, valid |-> TRUE,
       value |-> JsObject([n \in {"error"} |->
                    JsObject([k \in {"message"} |-> JsString(<<"m">>)])])],
      [text |-> <<"{}">>, valid |-> TRUE, value |-> JsObject(<<>>)] }

JsonParse(str) ==
    IF \E j \in JsonTexts : j.text = str /\ j.valid
    THEN Returned((CHOOSE j \in JsonTexts : j.text = str).value)
    ELSE [kind |-> "threw", value |-> JsString(<<"SyntaxError">>)]

\* data.choices[0].message?.content?.trim()
ChoiceContent(data) ==
    LET message == Get(First0(Get(data, "choices")), "message")
        content == Get(message, "content")
    IN IF Nullish(message) \/ Nullish(content) THEN Returned(Undefined)
       ELSE TrimCall(content)

\* the part of normalizeApiResponse after the string has been parsed
NormalizeParsed(parsed) ==
    LET inner == Get(parsed, "data")
        data == IF Truthy(parsed) /\ inner.type = "object"
                   /\ "data" \in DOMAIN inner.props
                THEN inner ELSE parsed
    IN IF Truthy(data) /\ Truthy(Get(data, "choices"))
          /\ Truthy(First0(Get(data, "choices")))
       THEN ReturnObject("content", ChoiceContent(data))
       ELSE IF Truthy(data) /\ Truthy(Get(data, "content"))
       THEN ReturnObject("content", TrimCall(Get(data, "content")))
       ELSE IF Truthy(data) /\ Truthy(Get(data, "data"))
       THEN ReturnObject("data", Returned(Get(data, "data")))
       ELSE IF Truthy(data) /\ Truthy(Get(data, "error"))
       THEN ReturnObject("error", Returned(Get(data, "error")))
       ELSE Returned(data)

InvalidJson ==
    JsObject([n \in {"error"} |->
        JsObject([k \in {"message"} |-> JsString(<<"Invalid JSON response">>)])])

normalizeApiResponse(value) ==
    IF value.type = "string"
    THEN IF JsonParse(value.str).kind = "threw" THEN Returned(InvalidJson)
         ELSE NormalizeParsed(JsonParse(value.str).value)
    ELSE NormalizeParsed(value)

\* the values of the fields of a response object
ChoicesValues ==
    { Undefined,
      JsArray(<<>>),
      JsArray(<<JsObject([n \in {"message"} |->
                    JsObject([k \in {"content"} |-> JsString(<<"A", " ">>)])])>>),
      JsArray(<<JsObject([n \in {"message"} |-> JsObject(<<>>)])>>),
      JsArray(<<JsObject([n \in {"text"} |-> JsString(<<"A">>)])>>),
      JsArray(<<JsObject([n \in {"message"} |->
                    JsObject([k \in {"content"} |-> JsNumber])])>>) }

ContentValues == { Undefined, JsString(<<>>), JsString(<<" ", "A">>), JsString(<<" ">>),
                   JsNumber }

ErrorValues ==
    { Undefined,
      JsObject([k \in {"message"} |-> JsString(<<"m">>)]),
      JsString(<<"m">>) }

\* data.data of a wrapped response, and the model list of /v1/models
InnerValues ==
    { JsObject([n \in {"data", "choices"} |->
          IF n = "data" THEN JsNull
          ELSE JsArray(<<JsObject([m \in {"message"} |->
                   JsObject([k \in {"content"} |-> JsString(<<"A">>)])])>>)]),
      JsObject([n \in {"data"} |-> JsArray(<<JsString(<<"model">>)>>)]),
      JsObject([n \in {"content"} |-> JsString(<<"A">>)]) }

DataValues == {Undefined, JsArray(<<JsString(<<"model">>)>>)} \cup InnerValues

ResponseObjects ==
    { JsObject([n \in {"choices", "content", "data", "error"} |->
          CASE n = "choices" -> ch [] n = "content" -> co
            [] n = "data" -> da [] n = "error" -> er]) :
        ch \in ChoicesValues, co \in ContentValues, da \in DataValues,
        er \in ErrorValues }

\* what the callers hand over: an object, a text, null or undefined
ResponseValues ==
    ResponseObjects \cup {JsString(j.text) : j \in JsonTexts}
    \cup {JsNull, Undefined}

\* normalizeApiResponse(responseData) has been called
InitNormalize ==
    /\ responseData \in ResponseValues
    /\ normalized = Pending
    /\ CallUnused
    /\ dispatches = <<>>
    /\ StreamUnused
    /\ LoreUnused
    /\ ResolveUnused
    /\ RaceUnused
    /\ HelperUnused

\* normalizeApiResponse returns or throws
NormalizeReturns ==
    /\ normalized = Pending
    /\ normalized' = normalizeApiResponse(responseData)
    /\ UNCHANGED responseData

NextNormalize ==
    NormalizeReturns
    /\ UNCHANGED <<callVars, dispatches, streamVars, loreVars, resolveVars, raceVars,
                   helperVars>>

SpecNormalize == InitNormalize /\ [][NextNormalize]_vars

\* { content: <a string> }
ContentShape(value) ==
    /\ value.type = "object"
    /\ DOMAIN value.props = {"content"}
    /\ value.props["content"].type = "string"

\* { error: { message: ... } }
ErrorShape(value) ==
    /\ value.type = "object"
    /\ DOMAIN value.props = {"error"}
    /\ value.props["error"].type = "object"
    /\ "message" \in DOMAIN value.props["error"].props

\* C29: normalizeApiResponse maps every response value to an object with a
\* string content or to an object with an error that carries a message;
\* it never returns its input, a `data` wrapper, or a content that is not a
\* string.
C29_TwoShapes ==
    normalized # Pending =>
        /\ normalized.kind = "returned"
        /\ ContentShape(normalized.value) \/ ErrorShape(normalized.value)


\* C30: every path on which callInterceptionApi returns null shows at least
\* one notification, and the notification tells the cause: keyword
\* validation that failed to the end, or the retry budget used up without
\* content (after a missing profile, an empty prompt, a timeout or another
\* failure, each with its own notification).
C30_NullIsNotified ==
    (pc = "done" /\ ret = Null) =>
        /\ toasts # <<>>
        /\ Last(outcomes) = "KeywordFailed" => Last(toasts) = "KeywordExhausted"
        /\ Last(outcomes) = "NoContent" => Last(toasts) = "RetriesExhausted"

(***************************************************************************)
(* validateKeywords on its own: one call, over the texts a user can write  *)
(* into apiSettings.requiredKeywords and over the contents an attempt      *)
(* brings.                                                                 *)
(***************************************************************************)
MaxKeywordText == 3

KeywordChars == {"A", "B", "a", ",", " "}

\* apiSettings.requiredKeywords as typed into the settings panel
KeywordTexts == UNION {[1..n -> KeywordChars] : n \in 0..MaxKeywordText}

\* callInterceptionApi has read its settings; an attempt has brought a
\* non-empty content (line 637) and validateKeywords(content) is called
InitKeywords ==
    /\ \E text \in KeywordTexts :
         apiSettings = [apiUrl |-> <<"u">>, apiMode |-> "frontend",
                        useStreaming |-> TRUE, requiredKeywords |-> text,
                        maxRetries |-> 0, tavernProfile |-> "",
                        mainPrompt |-> <<"x">>, systemPrompt |-> <<>>,
                        worldbookEnabled |-> FALSE]
    /\ candidate \in Contents
    /\ validation = "none"
    /\ globalSettings = [promptMode |-> "classic", jailbreakPrompts |-> <<>>]
    /\ callArgs = [userMessage |-> <<>>, contextMessages |-> <<>>,
                   worldbookContent |-> <<>>, tableDataContent |-> <<>>]
    /\ hostContext = [persona_description |-> <<>>, description |-> <<>>,
                      profiles |-> {}]
    /\ activeProfile = "O"
    /\ pc = "idle"
    /\ attempt = 0
    /\ messages = <<>>
    /\ originalProfile = ""
    /\ responsePromise = "none"
    /\ ret = Pending
    /\ toasts = <<>>
    /\ attemptsMade = 0
    /\ backoffs = 0
    /\ requests = 0
    /\ outcomes = <<>>
    /\ steps = <<>>
    /\ profileSwitches = 0
    /\ profileBefore = ""
    /\ dispatches = <<>>
    /\ StreamUnused
    /\ LoreUnused
    /\ ResolveUnused
    /\ RaceUnused
    /\ NormalizeUnused
    /\ PruneUnused
    /\ FlightUnused
    /\ ScanUnused

\* validateKeywords(content) returns
ValidateReturns ==
    /\ validation = "none"
    /\ validation' = IF validateKeywords(candidate, requiredKeywords)
                      THEN "passed" ELSE "failed"
    /\ UNCHANGED candidate

NextKeywords ==
    ValidateReturns
    /\ UNCHANGED <<callVars, dispatches, streamVars, loreVars, resolveVars,
                   raceVars, normalizeVars, pruneVars, flightVars, scanVars>>

SpecKeywords == InitKeywords /\ [][NextKeywords]_vars

\* the keywords the setting asks for: every piece between two commas (or an
\* end of the text), without the whitespace around it, unless nothing is left
RequiredItems ==
    LET text == apiSettings.requiredKeywords
        Piece(i, j) ==
            /\ i = 1 \/ text[i - 1] = ","
            /\ j = Len(text) \/ text[j + 1] = ","
            /\ \A n \in i..j : text[n] # ","
    IN { SubSeq(text, a, b) :
           <<a, b>> \in { ab \in (1..Len(text)) \X (1..Len(text)) :
                            /\ ab[1] <= ab[2]
                            /\ text[ab[1]] # " " /\ text[ab[2]] # " "
                            /\ \E i \in 1..ab[1], j \in ab[2]..Len(text) :
                                 /\ Piece(i, j)
                                 /\ \A n \in i..(ab[1] - 1) : text[n] = " "
                                 /\ \A n \in (ab[2] + 1)..j : text[n] = " " } }

\* keyword is written in text, character for character
Occurs(keyword, text) ==
    \E n \in 1..Len(text) :
        /\ n + Len(keyword) - 1 <= Len(text)
        /\ \A i \in 1..Len(keyword) : text[n + i - 1] = keyword[i]

\* keyword is written in text when upper and lower case count as the same
OccursInSomeCase(keyword, text) ==
    LET Same(c, d) == c = d \/ {c, d} = {"A", "a"}
    IN \E n \in 1..Len(text) :
        /\ n + Len(keyword) - 1 <= Len(text)
        /\ \A i \in 1..Len(keyword) : Same(text[n + i - 1], keyword[i])

\* C31: a content passes the keyword validation iff every required keyword
\* (the comma-separated setting, trimmed, empty items removed) occurs in it
\* character for character, which is always so for an empty list; a keyword
\* that occurs only in another letter case makes the content fail.
C31_ConjunctiveCaseSensitive ==
    validation # "none" =>
        /\ validation = "passed" <=>
              \A k \in RequiredItems : Occurs(k, candidate)
        /\ (\E k \in RequiredItems :
               ~Occurs(k, candidate) /\ OccursInSomeCase(k, candidate))
             => validation = "failed"

\* two keywords are required, one occurs in the content as written and the
\* other only in the other letter case: the content has failed
C31_Witness ==
    /\ validation = "failed"
    /\ Cardinality(RequiredItems) = 2
    /\ \E k \in RequiredItems : Occurs(k, candidate)
    /\ \E k \in RequiredItems :
         ~Occurs(k, candidate) /\ OccursInSomeCase(k, candidate)


(***************************************************************************)
(* The retry budget of callInterceptionApi (under Spec).                   *)
(***************************************************************************)
FailedOutcomes == {"NoContent", "KeywordFailed"}

\* C32: whatever mix of attempts without content and attempts that fail the
\* keyword validation a call goes through, it never makes more than
\* maxRetries attempts; a call that ends after failures of these two kinds
\* only has made exactly maxRetries attempts; and the first attempt with a
\* non-empty content that passes validation is the last one: the call ends
\* there and returns that content.
C32_SharedRetryBudget ==
    /\ attemptsMade <= maxRetries
    /\ Len(outcomes) <= attemptsMade
    /\ (LoopEntered /\ pc = "done"
          /\ \A i \in 1..Len(outcomes) : outcomes[i] \in FailedOutcomes)
         => /\ attemptsMade = maxRetries
            /\ Len(outcomes) = maxRetries
            /\ ret = Null
    /\ \A i \in 1..Len(outcomes) :
         outcomes[i] = "Success" =>
             /\ i = Len(outcomes)
             /\ attemptsMade = i
             /\ pc = "done"
             /\ ret.kind = "string"

\* one attempt without content, one that failed the keywords and a third
\* that succeeded, under a budget of three
C32_Witness ==
    /\ maxRetries = 3
    /\ outcomes = <<"NoContent", "KeywordFailed", "Success">>
    /\ pc = "done"


(***************************************************************************)
(* pruneQrfPlotHistory: calls on one chat, with one keepLatestCount.       *)
(* Numbers are counted in halves, so that 3 stands for 1.5.                *)
(***************************************************************************)
MaxChat == 3

\* a JS value handed over as keepLatestCount
Num(halves) == [type |-> "number", class |-> "finite", halves |-> halves, str |-> ""]
NotFinite(class) == [type |-> "number", class |-> class, halves |-> 0, str |-> ""]
Text(str) == [type |-> "string", class |-> "", halves |-> 0, str |-> str]
Other(type) == [type |-> type, class |-> "", halves |-> 0, str |-> ""]

\* Number(value): numbers as they are, null and '' are 0, a numeric text is
\* its number, undefined and any other text are NaN
Number(value) ==
    IF value.type = "number" THEN [class |-> value.class, halves |-> value.halves]
    ELSE IF value.type = "null" THEN [class |-> "finite", halves |-> 0]
    ELSE IF value.type = "string"
    THEN IF value.str = "" THEN [class |-> "finite", halves |-> 0]
         ELSE IF value.str = "2" THEN [class |-> "finite", halves |-> 4]
         ELSE [class |-> "NaN", halves |-> 0]
    ELSE [class |-> "NaN", halves |-> 0]

\* Number.isFinite
IsFinite(n) == n.class = "finite"

\* ToIntegerOrInfinity of a finite number: the fraction is dropped
Truncate(halves) == IF halves >= 0 THEN halves \div 2 ELSE -((-halves) \div 2)

Absent == "absent"

\* chat[i] && Object.prototype.hasOwnProperty.call(chat[i], 'qrf_plot')
HasOwnQrfPlot(message) == message.type = "object" /\ message.qrf_plot # Absent

\* the indexes (from 1) of the messages with an own qrf_plot, ascending
RECURSIVE plotIndexesFrom(_, _)
plotIndexesFrom(items, i) ==
    IF i > Len(items) THEN <<>>
    ELSE (IF HasOwnQrfPlot(items[i]) THEN <<i>> ELSE <<>>)
         \o plotIndexesFrom(items, i + 1)

\* array.slice(0, end) for a finite end, counted in halves
Slice(array, endHalves) ==
    LET end == Truncate(endHalves)
        stop == IF end < 0 THEN (IF Len(array) + end < 0 THEN 0 ELSE Len(array) + end)
                ELSE IF end > Len(array) THEN Len(array) ELSE end
    IN SubSeq(array, 1, stop)

\* a slice that keeps one index more than asked for
indexesToPruneOneLess(plotIndexes, retention) ==
    Slice(plotIndexes, 2 * (Len(plotIndexes) - 1) - retention.halves)

\* plotIndexes.slice(0, plotIndexes.length - retention)
indexesToPrune(plotIndexes, retention) ==
    Slice(plotIndexes, 2 * Len(plotIndexes) - retention.halves)

\* delete chat[index].qrf_plot, for every index
DeleteQrfPlot(items, indexes) ==
    [i \in 1..Len(items) |->
        IF \E n \in 1..Len(indexes) : indexes[n] = i
        THEN [items[i] EXCEPT !.qrf_plot = Absent] ELSE items[i]]

\* pruneQrfPlotHistory(chat, keepLatestCount): the chat after the call and
\* the number returned
pruneQrfPlotHistory(c, keep) ==
    LET retention == Number(keep)
        plotIndexes == plotIndexesFrom(c.items, 1)
    IN IF ~c.isArray \/ ~IsFinite(retention) \/ retention.halves <= 0
       THEN [chat |-> c, removedCount |-> 0]
       ELSE IF 2 * Len(plotIndexes) <= retention.halves
       THEN [chat |-> c, removedCount |-> 0]
       ELSE [chat |-> [c EXCEPT !.items =
                          DeleteQrfPlot(c.items, indexesToPrune(plotIndexes, retention))],
             removedCount |-> Len(indexesToPrune(plotIndexes, retention))]

\* the entries of a chat: a hole (null), or a message with its text, with or
\* without a qrf_plot, which may be the empty text
ChatEntries ==
    {[type |-> "null", mes |-> "", qrf_plot |-> Absent]}
    \cup {[type |-> "object", mes |-> m, qrf_plot |-> q] :
            m \in {"a", "b"}, q \in {Absent, "plot", ""}}

\* context.chat, or a value that is not an array but has the same entries
Chats ==
    {[isArray |-> a, items |-> items] :
        a \in BOOLEAN, items \in UNION {[1..n -> ChatEntries] : n \in 0..MaxChat}}

KeepLatestCounts ==
    {Num(h) : h \in -2..(2 * MaxChat + 2)}
    \cup {NotFinite(c) : c \in {"NaN", "Infinity", "-Infinity"}}
    \cup {Text("2"), Text("x"), Text(""), Other("undefined"), Other("null")}

InitPrune ==
    /\ chat \in Chats
    /\ keepLatestCount \in KeepLatestCounts
    /\ chatLog = <<>>
    /\ removedCounts = <<>>
    /\ CallUnused
    /\ dispatches = <<>>
    /\ StreamUnused
    /\ LoreUnused
    /\ ResolveUnused
    /\ RaceUnused
    /\ NormalizeUnused
    /\ KeywordUnused
    /\ FlightUnused
    /\ ScanUnused

\* pruneQrfPlotHistory(chat, keepLatestCount) is called and returns; the
\* caller may call it again on the same chat
PruneCall ==
    /\ Len(removedCounts) < 2
    /\ LET result == pruneQrfPlotHistory(chat, keepLatestCount) IN
         /\ chat' = result.chat
         /\ removedCounts' = Append(removedCounts, result.removedCount)
    /\ chatLog' = Append(chatLog, chat)
    /\ UNCHANGED keepLatestCount

NextPrune ==
    PruneCall
    /\ UNCHANGED <<callVars, dispatches, streamVars, loreVars, resolveVars,
                   raceVars, normalizeVars, keywordVars, flightVars, scanVars>>

SpecPrune == InitPrune /\ [][NextPrune]_vars


\* the chat after call n
ChatAfter(n) == IF n < Len(chatLog) THEN chatLog[n + 1] ELSE chat

\* the indexes of the messages that carry a qrf_plot
Carriers(c) ==
    {i \in 1..Len(c.items) : c.items[i].type = "object" /\ c.items[i].qrf_plot # Absent}

\* N, in halves, when the call prunes at all: the chat is an array and N is
\* finite and positive
Retention == Number(keepLatestCount)
Prunes(c) == c.isArray /\ Retention.class = "finite" /\ Retention.halves > 0

Smaller(a, b) == IF a <= b THEN a ELSE b

\* call n went from chat `before` to chat `after` and kept `kept` carriers:
\* these are the highest-index carriers, the earlier ones lost their qrf_plot,
\* their number was returned and nothing else changed
KeptLatest(n, kept) ==
    LET before == chatLog[n]
        after == ChatAfter(n)
    IN /\ Cardinality(Carriers(after)) = kept
       /\ Carriers(after) \subseteq Carriers(before)
       /\ \A i \in Carriers(after), j \in Carriers(before) \ Carriers(after) : j < i
       /\ removedCounts[n] = Cardinality(Carriers(before)) - kept
       /\ after.isArray = before.isArray
       /\ Len(after.items) = Len(before.items)
       /\ \A i \in 1..Len(before.items) :
            IF i \in Carriers(before) \ Carriers(after)
            THEN after.items[i] = [before.items[i] EXCEPT !.qrf_plot = Absent]
            ELSE after.items[i] = before.items[i]

\* call n changed nothing and returned 0
NothingRemoved(n) == ChatAfter(n) = chatLog[n] /\ removedCounts[n] = 0

\* C33 as stated: with a finite N > 0 a call leaves exactly the min(N, k)
\* highest-index messages carrying qrf_plot (k carried it before), removes it
\* from the earlier carriers, returns the number removed and changes nothing
\* else; with N <= 0, a non-finite N or a chat that is not an array it changes
\* nothing and returns 0; a second call with the same N removes nothing.
C33_KeepsMinOfNAndK ==
    /\ Len(removedCounts) >= 1 =>
         IF Prunes(chatLog[1])
         THEN \E kept \in 0..Len(chatLog[1].items) :
                /\ 2 * kept = Smaller(Retention.halves,
                                      2 * Cardinality(Carriers(chatLog[1])))
                /\ KeptLatest(1, kept)
         ELSE NothingRemoved(1)
    /\ Len(removedCounts) >= 2 => NothingRemoved(2)

\* C33, amended: with a finite N > 0 a call leaves exactly the min(ceil(N), k)
\* highest-index messages carrying qrf_plot, where ceil(N) is N rounded up to
\* a whole number; the rest of the statement is unchanged.
C33_KeepsMinOfCeilNAndK ==
    /\ Len(removedCounts) >= 1 =>
         IF Prunes(chatLog[1])
         THEN KeptLatest(1, Smaller((Retention.halves + 1) \div 2,
                                    Cardinality(Carriers(chatLog[1]))))
         ELSE NothingRemoved(1)
    /\ Len(removedCounts) >= 2 => NothingRemoved(2)

\* a chat of three carriers was pruned with N = 1.5, which removed one
\* qrf_plot, and was pruned again
C33_Witness ==
    /\ Len(removedCounts) = 2
    /\ Retention = [class |-> "finite", halves |-> 3]
    /\ Cardinality(Carriers(chatLog[1])) = 3
    /\ removedCounts[1] = 1
    /\ Cardinality(Carriers(chat)) = 2


(***************************************************************************)
(* The transport requests of one callInterceptionApi call, for the modes   *)
(* that send one HTTP request per attempt: the direct call (streamed or    *)
(* not) and the proxied call.  A request is in flight from the moment      *)
(* fetch or $.ajax is called until its promise settles.                    *)
(***************************************************************************)
FlightModes == {"frontend", "google", "backend"}

\* where makeApiCall awaits a request
AwaitsRequest(at) == at \in {"stream_await", "json_await", "backend_await"}

\* where the awaited promise is the one withTimeout returns (lines 174, 248)
AwaitsRace(at) == at \in {"json_await", "backend_await"}

InitFlight ==
    /\ \E mode \in FlightModes, streaming \in BOOLEAN,
          kw \in {<<>>, <<"A">>}, n \in 0..MaxRetriesCfg :
         /\ (mode = "backend" => streaming)
         /\ apiSettings = [apiUrl |-> <<"u">>, apiMode |-> mode,
                           useStreaming |-> streaming, requiredKeywords |-> kw,
                           maxRetries |-> n, tavernProfile |-> "",
                           mainPrompt |-> <<"x">>, systemPrompt |-> <<>>,
                           worldbookEnabled |-> FALSE]
    /\ globalSettings = [promptMode |-> "classic", jailbreakPrompts |-> <<>>]
    /\ callArgs = [userMessage |-> <<>>, contextMessages |-> <<>>,
                   worldbookContent |-> <<>>, tableDataContent |-> <<>>]
    /\ hostContext = [persona_description |-> <<>>, description |-> <<>>,
                      profiles |-> {}]
    /\ activeProfile = "O"
    /\ pc = "idle"
    /\ attempt = 0
    /\ messages = <<>>
    /\ originalProfile = ""
    /\ responsePromise = "none"
    /\ ret = Pending
    /\ toasts = <<>>
    /\ attemptsMade = 0
    /\ backoffs = 0
    /\ requests = 0
    /\ outcomes = <<>>
    /\ steps = <<>>
    /\ profileSwitches = 0
    /\ profileBefore = ""
    /\ inFlight = {}
    /\ dispatches = <<>>
    /\ StreamUnused
    /\ LoreUnused
    /\ ResolveUnused
    /\ RaceUnused
    /\ NormalizeUnused
    /\ KeywordUnused
    /\ PruneUnused
    /\ ScanUnused

\* makeApiCall has run up to its await: the request of this attempt is out
RequestIssued ==
    inFlight' = IF AwaitsRequest(pc') THEN inFlight \cup {attempt'} ELSE inFlight

\* callInterceptionApi is called and issues the request of attempt 1
FlightFirstAttempt == CallInterceptionApi /\ RequestIssued

\* the 1-second wait is over and the next attempt issues its request
FlightNextAttempt == BackoffElapsed /\ RequestIssued

\* the request of the running attempt settles and makeApiCall goes on with
\* its response or its error
FlightRequestSettles ==
    /\ AwaitsRequest(pc)
    /\ attempt \in inFlight
    /\ IF pc = "stream_await" THEN StreamResponse ELSE CaughtTransport(pc)
    /\ inFlight' = inFlight \ {attempt}

\* the timer of withTimeout fires first: the race rejects with the timeout
\* error, the catch block notifies and the attempt ends without content;
\* the request is not aborted
FlightTimerFires ==
    /\ AwaitsRace(pc)
    /\ attempt \in inFlight
    /\ LoopAfterAttempt(attempt, Null, <<ErrorToast("timeout")>>)
    /\ UNCHANGED <<config, activeProfile, dispatchLocals, attemptsMade, backoffs,
                   requests>>
    /\ UNCHANGED inFlight

\* a request whose race was lost settles: nobody reads its result
AbandonedRequestSettles ==
    /\ \E n \in inFlight :
         /\ ~(AwaitsRequest(pc) /\ n = attempt)
         /\ inFlight' = inFlight \ {n}
    /\ UNCHANGED callVars

notFlightVars ==
    <<dispatches, streamVars, loreVars, resolveVars, raceVars, normalizeVars,
      keywordVars, pruneVars, scanVars>>

NextFlight ==
    \/ FlightFirstAttempt /\ UNCHANGED notFlightVars
    \/ FlightNextAttempt /\ UNCHANGED notFlightVars
    \/ FlightRequestSettles /\ UNCHANGED notFlightVars
    \/ FlightTimerFires /\ UNCHANGED notFlightVars
    \/ AbandonedRequestSettles /\ UNCHANGED notFlightVars

SpecFlight == InitFlight /\ [][NextFlight]_vars

\* C34: during one callInterceptionApi call at most one transport request
\* issued by that call is in flight at any time: a new attempt never starts
\* while the request of an earlier attempt, including one abandoned by the
\* 60-second timeout, is still pending.
C34_OneRequestInFlight == Cardinality(inFlight) <= 1


(***************************************************************************)
(* tryGetWorldbookContentViaOfficialWI and the host globals it rewrites    *)
(* for the time of the scan.  A call runs in steps, from one await to the  *)
(* next: up to the first await, after each loadWorldInfo, after            *)
(* checkWorldInfo.  Calls may be started while an earlier one is awaiting. *)
(*   chatWorld       chat_metadata.world_info ("absent": no own property)  *)
(*   personaWorld    power_user.persona_description_lorebook               *)
(*   characterWorld  character.data.extensions.world ("noExtensions": the  *)
(*                   character has no data.extensions)                     *)
(*   charLore        world_info.charLore, with had = FALSE when absent     *)
(*   cache           worldInfoCache, by book name                          *)
(***************************************************************************)
MaxScans == 2

Books == {"A", "B"}

\* what worldInfoCache holds for a book, and what loadWorldInfo reads from
\* its file: the uids of the entries with disable = true
NotCached == [kind |-> "missing", disabled |-> {}]
BookData(disabled) == [kind |-> "data", disabled |-> disabled]
FileData == BookData({})

\* getCharaFilename(chid)
fileName == "f"

NoCharLore == [had |-> FALSE, list |-> <<>>]
CharLore(list) == [had |-> TRUE, list |-> list]

\* the locals captured at lines 118-126
CaptureOriginals(g) ==
    [characterWorld |-> IF g.characterWorld = "noExtensions" THEN "undefined"
                        ELSE g.characterWorld,
     hadCharLore |-> g.charLore.had,
     charLore |-> g.charLore.list,
     chatWorld |-> IF g.chatWorld = "absent" THEN "undefined" ELSE g.chatWorld,
     personaWorld |-> IF g.personaWorld = "absent" THEN "null" ELSE g.personaWorld]

\* nextCharLore: the entry of the character gets the extra books, or is
\* removed when there are none
nextCharLore(originalCharLore, extraBooks) ==
    LET found == {n \in 1..Len(originalCharLore) : originalCharLore[n].name = fileName}
        idx == IF found = {} THEN 0
               ELSE CHOOSE n \in found : \A m \in found : n <= m
    IN IF extraBooks = <<>>
       THEN (IF idx = 0 THEN originalCharLore
             ELSE SubSeq(originalCharLore, 1, idx - 1)
                  \o SubSeq(originalCharLore, idx + 1, Len(originalCharLore)))
       ELSE IF idx = 0
       THEN Append(originalCharLore, [name |-> fileName, extraBooks |-> extraBooks])
       ELSE [originalCharLore EXCEPT ![idx] = [@ EXCEPT !.extraBooks = extraBooks]]

\* lines 163-189: the bindings are rewritten for the scan
ApplyTemporary(g, original, bookNames) ==
    [g EXCEPT
       !.chatWorld = IF @ = "absent" THEN @ ELSE "null",
       !.personaWorld = IF @ = "absent" THEN @ ELSE "null",
       !.characterWorld = IF @ = "noExtensions" THEN @ ELSE bookNames[1],
       !.charLore = CharLore(nextCharLore(
                        IF original.hadCharLore THEN original.charLore ELSE <<>>,
                        Tail(bookNames)))]

\* a restore that leaves in the cache the books that were not cached before
restoreKeepsMisses(g, scan) ==
    [g EXCEPT
       !.cache = [b \in Books |->
                    IF scan.cacheOriginal[b].kind = "data" THEN scan.cacheOriginal[b]
                    ELSE @[b]],
       !.chatWorld = IF @ = "absent" THEN @ ELSE scan.original.chatWorld,
       !.personaWorld = IF @ = "absent" THEN @ ELSE scan.original.personaWorld,
       !.characterWorld = IF @ = "noExtensions" THEN @
                          ELSE scan.original.characterWorld,
       !.charLore = IF scan.original.hadCharLore
                    THEN CharLore(scan.original.charLore) ELSE NoCharLore]

\* restore(): cached books get their saved value, books that were not cached
\* are deleted, the four bindings get the captured values
restore(g, scan) ==
    [g EXCEPT
       !.cache = [b \in Books |->
                    IF b \in scan.cacheMisses THEN NotCached
                    ELSE IF scan.cacheOriginal[b].kind = "data"
                    THEN scan.cacheOriginal[b]
                    ELSE @[b]],
       !.chatWorld = IF @ = "absent" THEN @ ELSE scan.original.chatWorld,
       !.personaWorld = IF @ = "absent" THEN @ ELSE scan.original.personaWorld,
       !.characterWorld = IF @ = "noExtensions" THEN @
                          ELSE scan.original.characterWorld,
       !.charLore = IF scan.original.hadCharLore
                    THEN CharLore(scan.original.charLore) ELSE NoCharLore]

\* the next book from position `from` on that has disabled uids (line 198),
\* 0 when there is none
NextPatchedBook(scan, from) ==
    LET rest == {n \in from..Len(scan.bookNames) :
                    scan.disabledEntriesMap[scan.bookNames[n]] # {}}
    IN IF rest = {} THEN 0 ELSE CHOOSE n \in rest : \A m \in rest : n <= m

\* lines 200-207: the loop reaches book `index`, notes whether it is cached
\* and awaits loadWorldInfo; without such a book checkWorldInfo is awaited
LoopUntilAwait(scan, g, index) ==
    IF index = 0 THEN [scan EXCEPT !.at = "check"]
    ELSE LET worldName == scan.bookNames[index] IN
         IF g.cache[worldName].kind = "data"
         THEN [scan EXCEPT !.at = "load", !.index = index,
                           !.cacheOriginal[worldName] = g.cache[worldName]]
         ELSE [scan EXCEPT !.at = "load", !.index = index,
                           !.cacheMisses = @ \cup {worldName}]

\* the official scan is called: everything up to its first await
ScanCall ==
    /\ Len(scans) < MaxScans
    /\ LET original == CaptureOriginals(hostGlobals)
           bookNames == scanSettings.bookNames
           started == [bookNames |-> bookNames,
                       disabledEntriesMap |-> scanSettings.disabledEntriesMap,
                       at |-> "begin", index |-> 0,
                       original |-> original,
                       cacheOriginal |-> [b \in Books |-> NotCached],
                       cacheMisses |-> {},
                       ret |-> "pending"]
           g == ApplyTemporary(hostGlobals, original, bookNames)
       IN /\ hostGlobals' = g
          /\ scans' = Append(scans,
                        LoopUntilAwait(started, g, NextPatchedBook(started, 1)))
    /\ UNCHANGED <<scanSettings, globalsBefore>>

\* loadWorldInfo settles: the host hands out what it has cached or what it
\* read from the file, which it may keep in its cache; it may also find
\* nothing, or fail
LoadSettles(k) ==
    /\ k \in 1..Len(scans)
    /\ scans[k].at = "load"
    /\ LET scan == scans[k]
           worldName == scan.bookNames[scan.index]
           cached == hostGlobals.cache[worldName]
           next == NextPatchedBook(scan, scan.index + 1)
       IN \/ \E hostCaches \in BOOLEAN :
               LET data == IF cached.kind = "data" THEN cached ELSE FileData
                   modified == BookData(data.disabled
                                        \cup scan.disabledEntriesMap[worldName])
                   g == [hostGlobals EXCEPT !.cache[worldName] = modified]
               IN /\ cached.kind = "data" => hostCaches
                  /\ hostGlobals' = g
                  /\ scans' = [scans EXCEPT ![k] = LoopUntilAwait(scan, g, next)]
          \/ \* if (!data || ...) continue;
             /\ cached.kind = "missing"
             /\ hostGlobals' = hostGlobals
             /\ scans' = [scans EXCEPT ![k] = LoopUntilAwait(scan, hostGlobals, next)]
          \/ \* catch: return null; finally: restore()
             /\ cached.kind = "missing"
             /\ hostGlobals' = restore(hostGlobals, scan)
             /\ scans' = [scans EXCEPT ![k] = [scan EXCEPT !.at = "done", !.ret = "null"]]
    /\ UNCHANGED <<scanSettings, globalsBefore>>

\* checkWorldInfo settles with entries, with nothing, or fails; restore()
\* runs in the finally block
CheckSettles(k) ==
    /\ k \in 1..Len(scans)
    /\ scans[k].at = "check"
    /\ \E result \in {"combined", "empty", "null"} :
         scans' = [scans EXCEPT ![k] = [@ EXCEPT !.at = "done", !.ret = result]]
    /\ hostGlobals' = restore(hostGlobals, scans[k])
    /\ UNCHANGED <<scanSettings, globalsBefore>>

\* the lists of books a call scans, and the uids disabled in the settings
BookNameLists == {<<"A">>, <<"B", "A">>}

DisabledEntriesMaps ==
    { [b \in Books |-> {}],
      [b \in Books |-> IF b = "A" THEN {1} ELSE {}],
      [b \in Books |-> IF b = "A" THEN {1} ELSE {2}] }

\* the host as a call may find it
HostGlobals ==
    [chatWorld : {"absent", "cw"},
     personaWorld : {"absent", "pw"},
     characterWorld : {"noExtensions", "undefined", "A"},
     charLore : {NoCharLore, CharLore(<<>>),
                 CharLore(<<[name |-> "f", extraBooks |-> <<"B">>]>>)},
     cache : [Books -> {NotCached, FileData}]]

\* getCombinedWorldbookContent has collected bookNames (lines 85-108) and
\* calls the official scan; calls that overlap read the same settings
InitScan ==
    /\ scanSettings \in [bookNames : BookNameLists,
                          disabledEntriesMap : DisabledEntriesMaps]
    /\ hostGlobals \in HostGlobals
    /\ globalsBefore = hostGlobals
    /\ scans = <<>>
    /\ CallUnused
    /\ dispatches = <<>>
    /\ StreamUnused
    /\ LoreUnused
    /\ ResolveUnused
    /\ RaceUnused
    /\ NormalizeUnused
    /\ KeywordUnused
    /\ PruneUnused
    /\ FlightUnused

notScanVars ==
    <<callVars, dispatches, streamVars, loreVars, resolveVars, raceVars,
      normalizeVars, keywordVars, pruneVars, flightVars>>

NextScan ==
    \/ ScanCall /\ UNCHANGED notScanVars
    \/ \E k \in 1..MaxScans : LoadSettles(k) /\ UNCHANGED notScanVars
    \/ \E k \in 1..MaxScans : CheckSettles(k) /\ UNCHANGED notScanVars

SpecScan == InitScan /\ [][NextScan]_vars

\* the value read from a global: a property that is absent reads as undefined
Reads(g) ==
    [g EXCEPT !.chatWorld = IF @ = "absent" THEN "undefined" ELSE @,
              !.personaWorld = IF @ = "absent" THEN "undefined" ELSE @,
              !.characterWorld = IF @ = "noExtensions" THEN "undefined" ELSE @]

AllScansSettled == \A k \in 1..Len(scans) : scans[k].at = "done"

C36_OverlappingScansRestoreGlobals ==
    AllScansSettled => Reads(hostGlobals) = Reads(globalsBefore)


(***************************************************************************)
(* The core prompts in the assembled list (under SpecAssembly).            *)
(***************************************************************************)
\* how often a message of the core prompts occurs in the assembled list
Occurrences(message) ==
    Cardinality({i \in 1..Len(messages) : messages[i] = message})

\* C37: in classic mode every message of the core prompts occurs exactly once
\* in the assembled list, whatever the jailbreak sequence, also when the
\* sequence holds the $CORE_PROMPTS sentinel more than once.
C37_CorePromptsOnce ==
    (Assembled /\ globalSettings.promptMode = "classic") =>
        \A part \in 1..Len(corePromptMessages) :
            Occurrences(corePromptMessages[part]) = 1


(***************************************************************************)
(* Substituted values in the resolved text (under SpecResolve).            *)
(***************************************************************************)
\* the tokens written in the template, without a backslash before them
WrittenTokens ==
    {template[i + 1] : i \in {n \in 1..Len(template) : UnescapedTokenAt(template, n)}}

\* value stands in text as it is, character for character
StandsIn(value, text) ==
    \E n \in 0..(Len(text) - Len(value)) :
        \A i \in 1..Len(value) : text[n + i] = value[i]

\* C38: substitution values are inserted verbatim: the value of every token
\* written in the template stands in the resolved text as it is, also when
\* the value itself holds a recognized token, and a template without tokens
\* is returned unchanged.
C38_ValuesInsertedVerbatim ==
    resolved.kind = "string" =>
        /\ \A c \in WrittenTokens : StandsIn(TokenValue(c), resolved.value)
        /\ WrittenTokens = {} => resolved.value = template


(***************************************************************************)
(* The read loop of fetchWithStreamAndTimeout character by character: the  *)
(* body is one text, a chunk is any non-empty run of its next characters,  *)
(* so a chunk may end inside a line, inside 'data: ' or inside a payload.  *)
(* Time is not followed here: every chunk arrives at instant 0.            *)
(***************************************************************************)
MaxBodyLines == 3

\* the first position from `from` on that holds a newline, 0 when none does
RECURSIVE NewlineFrom(_, _)
NewlineFrom(text, from) ==
    IF from > Len(text) THEN 0
    ELSE IF SubSeq(text, from, from) = "\n" THEN from
    ELSE NewlineFrom(text, from + 1)

\* buffer.split('\n')
RECURSIVE SplitText(_)
SplitText(text) ==
    LET at == NewlineFrom(text, 1) IN
    IF at = 0 THEN <<text>>
    ELSE <<SubSeq(text, 1, at - 1)>> \o SplitText(SubSeq(text, at + 1, Len(text)))

\* String.prototype.trim on a text with blanks
RECURSIVE TrimText(_)
TrimText(text) ==
    IF Len(text) = 0 THEN text
    ELSE IF SubSeq(text, 1, 1) = " " THEN TrimText(SubSeq(text, 2, Len(text)))
    ELSE IF SubSeq(text, Len(text), Len(text)) = " "
    THEN TrimText(SubSeq(text, 1, Len(text) - 1))
    ELSE text

\* lines 76-103 for one line: startsWith('data: '), slice(6).trim(), the
\* [DONE] test, JSON.parse and the content at the family's path
TextLineIncrement(line, google) ==
    IF Len(line) < 6 \/ SubSeq(line, 1, 6) # "data: " THEN <<>>
    ELSE LET data == TrimText(SubSeq(line, 7, Len(line))) IN
         IF data = "[DONE]" THEN <<>>
         ELSE IF data \in JsonPayloads
              THEN IF google THEN GoogleText(data) ELSE OpenAiDelta(data)
              ELSE <<>>

RECURSIVE TextIncrements(_, _)
TextIncrements(lines, google) ==
    IF lines = <<>> THEN <<>>
    ELSE TextLineIncrement(Head(lines), google) \o TextIncrements(Tail(lines), google)

\* a loop that forgets the incomplete line
RetainedLineDropped(lines) == ""

\* buffer = lines.pop() || ''
RetainedLine(lines) == lines[Len(lines)]

\* reader.read() resolves with a chunk: the next n characters of the body
ChunkRead ==
    /\ streamPc = "read"
    /\ ~cancelled
    /\ \E n \in 1..(Len(body) - received) :
         LET lines == SplitText(buffer \o SubSeq(body, received + 1, received + n))
         IN /\ received' = received + n
            /\ buffer' = RetainedLine(lines)
            /\ accumulatedContent' =
                   accumulatedContent \o
                   TextIncrements(SubSeq(lines, 1, Len(lines) - 1), isGoogleApi)
    /\ ResetInactivityClock
    /\ lastArrival' = now
    /\ UNCHANGED <<isGoogleApi, body, now, timeoutId, reader, cancelled, streamPc,
                   streamRet, watchdogRanAt, settledAt, uncaught>>

\* the lines a server may send: events of either family, the end marker, a
\* comment and the blank line between events
BodyLines == {"data: {A}", "data: {g} ", "data: [DONE]", "x", ""}

RECURSIVE JoinText(_, _)
JoinText(lines, terminated) ==
    IF lines = <<>> THEN ""
    ELSE IF Len(lines) = 1 /\ ~terminated THEN Head(lines)
    ELSE Head(lines) \o "\n" \o JoinText(Tail(lines), terminated)

TextBodies ==
    { JoinText(ls, t) :
        ls \in UNION {[1..n -> BodyLines] : n \in 0..MaxBodyLines}, t \in BOOLEAN }

\* the response is ok, the reader is acquired and the watchdog started
InitChunks ==
    /\ isGoogleApi \in BOOLEAN
    /\ body \in TextBodies
    /\ received = 0
    /\ now = 0
    /\ lastChunkTime = 0
    /\ timeoutId = "set"
    /\ buffer = ""
    /\ accumulatedContent = <<>>
    /\ reader = "locked"
    /\ cancelled = FALSE
    /\ streamPc = "read"
    /\ streamRet = Pending
    /\ lastArrival = 0
    /\ watchdogRanAt = -1
    /\ settledAt = -1
    /\ uncaught = {}
    /\ CallUnused
    /\ dispatches = <<>>
    /\ LoreUnused
    /\ RestUnused

NextChunks ==
    \/ ChunkRead /\ UNCHANGED <<callVars, dispatches, loreVars, restVars>>
    \/ ReadDone /\ UNCHANGED <<callVars, dispatches, loreVars, restVars>>

SpecChunks == InitChunks /\ [][NextChunks]_vars

\* what the complete lines of a text add up to, found by walking the text
\* once: `start` is where the running line began
RECURSIVE ContentOfLines(_, _, _, _)
ContentOfLines(text, at, start, google) ==
    IF at > Len(text) THEN <<>>
    ELSE IF SubSeq(text, at, at) = "\n"
         THEN TextLineIncrement(SubSeq(text, start, at - 1), google)
              \o ContentOfLines(text, at + 1, at + 1, google)
         ELSE ContentOfLines(text, at + 1, start, google)

\* the characters after the last newline of a text
RECURSIVE OpenLine(_)
OpenLine(text) ==
    IF NewlineFrom(text, 1) = 0 THEN text
    ELSE OpenLine(SubSeq(text, NewlineFrom(text, 1) + 1, Len(text)))

\* C39: the result of fetchWithStreamAndTimeout depends only on the
\* characters of the stream, not on how they are split into chunks: after
\* any chunks, ending inside a line or inside a 'data: ' marker or not, the
\* accumulated text and the retained line are those of the characters
\* received so far, and a stream read to its end settles with the result
\* that the body alone determines.
C39_ChunkingIndependent ==
    LET soFar == SubSeq(body, 1, received)
        whole == ContentOfLines(body, 1, 1, isGoogleApi)
    IN /\ accumulatedContent = ContentOfLines(soFar, 1, 1, isGoogleApi)
       /\ buffer = OpenLine(soFar)
       /\ streamPc = "done" =>
            /\ received = Len(body)
            /\ streamRet = IF whole = <<>> THEN Threw("NoContent")
                           ELSE Str(Trim(whole))

\* a chunk has ended inside the 'data: ' marker of the second event: the
\* text of the first event is accumulated and the three characters of the
\* marker are retained
C39_Witness ==
    /\ streamPc = "read"
    /\ body = "data: {A}\ndata: {A}\n"
    /\ received = 13
    /\ buffer = "dat"
    /\ accumulatedContent = <<"A", " ">>

====
